---- MODULE Spec2Model ----
(***************************************************************************)
(* Verification model of Minecraft-Server-Manager.                         *)
(*                                                                         *)
(*   src/server.py              MinecraftPing, ServerManager, sigint       *)
(*   src/server_monitor.py      ServerMonitor                              *)
(*   src/forge_login_client.py  VarInt codec of the Forge login client     *)
(*   src/server_info.py         MinecraftQuery VarInt codec                *)
(*                                                                         *)
(* The module holds one specification per subsystem.  Every specification  *)
(* shares the variables below; a specification leaves the variables of the *)
(* other subsystems at their initial value.                                *)
(*                                                                         *)
(*   SpecVarint   wire codec (pure functions applied to drawn inputs)      *)
(*   SpecMonitor  ServerMonitor sampler: diff-to-event derivation          *)
(*   SpecCache    MinecraftPing.ping over the status and SRV caches        *)
(*   SpecCancel   main loop, fan-out probes, port scans, cancel flag       *)
(*   SpecRecords  ServerRecord history rings and servers.json              *)
(***************************************************************************)
EXTENDS Integers, Sequences, FiniteSets, TLC

VARIABLES
    \* ---- wire codec --------------------------------------------------
    vVal,        \* the integer handed to an encoder (a Python int, see PyInt)
    vStream,     \* what a socket / buffer delivers to a reader
    vOp,         \* the codec operation applied last
    vOut,        \* its outcome
    \* ---- ServerMonitor ----------------------------------------------
    mType,              \* self.server['type'] of the monitored record
    last_result,        \* self.last_result (NoResult stands for None)
    last_players,       \* self.last_players
    last_player_count,  \* self.last_player_count
    event_queue,        \* self.event_queue
    all_events,         \* self.all_events
    mProbes,            \* history: the results check_server_status was given
    m_server,           \* self.server, the record the monitor watches
    \* ---- MinecraftPing caches ---------------------------------------
    now,                  \* time.time(), in seconds
    cache,                \* MinecraftPing.cache
    srv_cache,            \* MinecraftPing.srv_cache
    dns,                  \* the SRV record the resolver would find now
    srv_answer,           \* history: what the resolver returned last, and when
    call,                 \* history: the last MinecraftPing.ping call
    pings,                \* number of MinecraftPing.ping calls made
    \* ---- the process-wide flag --------------------------------------
    global_cancel_query,  \* set by sigint_handler
    \* ---- main loop and its long operations --------------------------
    mainPc,               \* where the main thread is
    fleet,                \* the kinds of the servers on the current page
    thr,                  \* the tasks of the fan-out in progress
    results,              \* what query_servers_concurrently returned last
    scan_i,               \* scan_ports: index of the next common port
    port_queue,           \* scan_all_ports: ports left in the queue
    sigint_in_op,         \* history: Ctrl-C came during the present operation
    stale_cancel_seen,    \* history: an operation met a flag set before it began
    \* ---- ServerManager records --------------------------------------
    servers,              \* self.servers
    json_file,            \* the content of servers.json
    appended,             \* number of history entries appended so far
    \* ---- text functions ---------------------------------------------
    tIn,                  \* the text or datagram handed to the function
    tOp,                  \* the function applied: "init" before any
    tOut,                 \* what it returned
    \* ---- the mod cache ----------------------------------------------
    mods_dir,             \* the files of mods_config
    mods_written,         \* history: the list save_mods wrote last, by endpoint
    mod_call,             \* history: the last get_mod_list call
    mod_calls,            \* number of get_mod_list calls made
    \* ---- the logs directory -----------------------------------------
    logs_dir,             \* the files of logs and their modification times
    log_cleanup,          \* history: the last cleanup_old_logs run
    \* ---- the threads of one ServerMonitor --------------------------
    is_running,           \* self.is_running
    monitor_active,       \* self.monitor_active
    pause_display,        \* self.pause_display
    uiPc,                 \* where the UI thread is
    samplerPc,            \* where the sampler thread is
    held,                 \* the event the drainer took and has not appended
    enqueued,             \* history: the events in the order of their put
    pager_probes,         \* history: probes made since the log viewer opened
    \* ---- the sockets of the probes ----------------------------------
    probe_fn,             \* the probe function that runs
    probePc,              \* where it is
    sock,                 \* its socket: "none", "open" or "closed"
    exit_path,            \* history: how the probe came to its end
    chunks_left,          \* pieces of the JSON still to come
    probe_runs,           \* number of probes started
    \* ---- the scan of the common ports -------------------------------
    listening,            \* the endpoints on which a server answers
    scanPc,               \* where scan_ports is
    scan_port,            \* index of the port of the current round
    found_servers,        \* the list scan_ports builds
    scan_probes,          \* history: the endpoints the probes were sent to
    \* ---- the fan-out of probes over a list of records ----------------
    fan_servers,          \* self.servers, the records of the manager
    fan_passed,           \* the list passed: positions of the objects
    fan_results,          \* results, one slot per entry of the list
    fan_task,             \* per task: where it is and its server_index
    fan_clock,            \* time.time() as the tasks read it
    fan_writes,           \* history: <<task, position>> of record writes
    \* ---- the refresh interval of the monitors ------------------------
    refresh_interval,         \* of a ServerMonitor run on its own
    multi_refresh_interval,   \* of a MultiServerMonitor
    child_refresh_interval,   \* of each monitor the multi monitor owns
    key_event,                \* the interval the last 'info' event announced
    last_key,                 \* history: the key handled last and by whom
    \* ---- the sweep of a port range -----------------------------------
    sweep_queue,          \* port_queue: the ports not yet taken
    sweep_worker,         \* per worker: where it is and the port it holds
    sweep_found,          \* found_servers of scan_all_ports
    scanned_ports,        \* the counter the workers advance
    sweep_probed,         \* history: how often each port was probed
    sweep_main,           \* where scan_all_ports is, and how it ended
    \* ---- the Forge/FML login dialog ----------------------------------
    fl_pc,                \* where get_mods_from_server is
    fl_sock,              \* the client's socket: "none", "open", "closed"
    fl_peer,              \* the server's end: "open" or "closed"
    fl_clock,             \* seconds since the read loop started, capped
    predefined_mods,      \* the caller's mod hint
    seen_mods,            \* the tokens found in the payloads so far
    fl_packet,            \* the packet the last round of the loop read
    fl_sent,              \* the replies sent in the last round
    \* ---- the events of a monitor and its daily log -------------------
    enable_logging,       \* self.enable_logging
    pe_queue,             \* self.event_queue of this monitor
    daily_logs,           \* per day: the daily log file of the server
    pe_today,             \* the day datetime.now() gives
    pe_last,              \* history: the last add_event call
    \* ---- two threads in check_server_status --------------------------
    ov_world,             \* what the server is like now
    ov_thread,            \* per thread: where it is, and its current_result
    ov_last_result,       \* self.last_result
    ov_last_players,      \* self.last_players
    ov_last_player_count, \* self.last_player_count
    ov_events,            \* the events in the order of their add_event
    ov_history            \* history: the changes of the server, the checks
                          \* begun, and the result of the latest probe

varintVars == <<vVal, vStream, vOp, vOut>>
monitorVars == <<mType, last_result, last_players, last_player_count,
                 event_queue, all_events, mProbes, m_server>>

cacheVars == <<now, cache, srv_cache, dns, srv_answer, call, pings>>
flagVars == <<global_cancel_query>>
cancelVars == <<mainPc, fleet, thr, results, scan_i, port_queue,
                sigint_in_op, stale_cancel_seen>>

recordVars == <<servers, json_file, appended>>
textVars == <<tIn, tOp, tOut>>

\* the variables of the parts that follow the records
modVars == <<mods_dir, mods_written, mod_call, mod_calls>>
logVars == <<logs_dir, log_cleanup>>
threadVars == <<is_running, monitor_active, pause_display, uiPc, samplerPc,
                held, enqueued, pager_probes>>
sockVars == <<probe_fn, probePc, sock, exit_path, chunks_left, probe_runs>>
scanVars == <<listening, scanPc, scan_port, found_servers, scan_probes>>
fanVars == <<fan_servers, fan_passed, fan_results, fan_task, fan_clock,
             fan_writes>>
keyVars == <<refresh_interval, multi_refresh_interval,
             child_refresh_interval, key_event, last_key>>
sweepVars == <<sweep_queue, sweep_worker, sweep_found, scanned_ports,
               sweep_probed, sweep_main>>
loginVars == <<fl_pc, fl_sock, fl_peer, fl_clock, predefined_mods,
               seen_mods, fl_packet, fl_sent>>
\* the variables of the parts that follow the sweep
persistVars == <<enable_logging, pe_queue, daily_logs, pe_today, pe_last>>
overlapVars == <<ov_world, ov_thread, ov_last_result, ov_last_players,
                 ov_last_player_count, ov_events, ov_history>>
laterVars == <<loginVars, persistVars, overlapVars>>
moreVars == <<scanVars, fanVars, keyVars, sweepVars, laterVars>>
extVars == <<textVars, modVars, logVars, threadVars, sockVars, moreVars>>

vars == <<varintVars, monitorVars, cacheVars, flagVars, cancelVars,
          recordVars, extVars>>

(***************************************************************************)
(* Python integers.  Python ints are unbounded, the model checker's are    *)
(* 32 bit, and the codec handles 2^32 + v and values of 35 and more bits.  *)
(* A Python int n is the pair <<hi, lo>> with n = hi * 2^28 + lo and       *)
(* 0 <= lo < 2^28 (floor division, so -1 = <<-1, 2^28 - 1>>, which is the  *)
(* infinite two's complement Python's & and >> work on).                   *)
(***************************************************************************)
P28 == 2^28
P21 == 2^21

PyInt(v) == <<v \div P28, v % P28>>

PyIsZero(n) == n = <<0, 0>>
PyIsNeg(n) == n[1] < 0

\* n & 0x7F
PyAnd7F(n) == n[2] % 128

\* n >> 7
PyShr7(n) == <<n[1] \div 128, (n[1] % 128) * P21 + (n[2] \div 128)>>

\* (1 << 32) + n
PyAdd2p32(n) == <<n[1] + 16, n[2]>>

\* n - 0x100000000
PySub2p32(n) == <<n[1] - 16, n[2]>>

\* n > 0x7FFFFFFF
PyGt7FFFFFFF(n) == n[1] >= 8

\* n | (d << shift), for a 7 bit d and an n that has no bit at or above
\* shift (which is how every reader below uses it): the OR is a sum.
PyOrShl(n, d, shift) ==
    IF shift < 28 THEN <<n[1], n[2] + d * 2^shift>>
                  ELSE <<n[1] + d * 2^(shift - 28), n[2]>>

(***************************************************************************)
(* Bounds of the codec inputs.                                             *)
(***************************************************************************)
\* longest stream handed to a reader
MaxStreamLen == 6
\* iterations granted to an encoder loop before it is declared divergent
PackFuel == 8

\* select() reported "not ready" / recv() timed out: no byte arrived in time
Stall == -1

ByteSamples == {0, 15, 128, 255}

StreamItems == ByteSamples \cup {Stall}

RECURSIVE SeqsUpTo(_, _)
SeqsUpTo(S, n) ==
    IF n = 0 THEN {<<>>}
    ELSE LET shorter == SeqsUpTo(S, n - 1)
         IN  shorter \cup {Append(s, x) : s \in {t \in shorter : Len(t) = n - 1}, x \in S}

\* A stream is a finite run of bytes and stalls, followed by end of file.
Streams == SeqsUpTo(StreamItems, MaxStreamLen)

IsBytes(s) == \A i \in 1..Len(s) : s[i] # Stall

VarIntSamples ==
    {-1, 0, 1, 127, 128, 16383, 16384, 2147483647,
     -2147483647 - 1, -128, 2097151, 2097152, 268435455, 268435456}

(***************************************************************************)
(* Encoders.  The result is [bytes, terminated]; terminated is FALSE when  *)
(* the loop is still running after PackFuel iterations.                    *)
(***************************************************************************)
RECURSIVE PackLoop(_, _, _)
PackLoop(value, out, fuel) ==
    LET byte == PyAnd7F(value)
        rest == PyShr7(value)
    IN  IF PyIsZero(rest) THEN [bytes |-> Append(out, byte), terminated |-> TRUE]
        ELSE IF fuel = 0 THEN [bytes |-> Append(out, byte + 128), terminated |-> FALSE]
        ELSE PackLoop(rest, Append(out, byte + 128), fuel - 1)

\* the mutant: no two's complement adjustment of a negative value
MinecraftPing_pack_varint_noadjust(value) == PackLoop(value, <<>>, PackFuel)

\* MinecraftPing._pack_varint
MinecraftPing_pack_varint(value) ==
    PackLoop(IF PyIsNeg(value) THEN PyAdd2p32(value) ELSE value, <<>>, PackFuel)

\* forge_login_client.pack_varint
pack_varint(value) ==
    PackLoop(IF PyIsNeg(value) THEN PyAdd2p32(value) ELSE value, <<>>, PackFuel)

\* MinecraftQuery._pack_varint (server_info.py): no adjustment of a negative
\* value, so >> 7 keeps the sign and the value never becomes 0
MinecraftQuery_pack_varint(value) == PackLoop(value, <<>>, PackFuel)

(***************************************************************************)
(* Readers.  The outcome is [kind, value, consumed]:                       *)
(*   "value"    the reader returned value after taking consumed bytes      *)
(*   "none"     the reader returned None (end of file / end of buffer)     *)
(*   "error"    the reader raised an Exception                             *)
(*   "timeout"  socket.timeout left the reader                             *)
(***************************************************************************)
Returned(v, n) == [kind |-> "value", value |-> v, consumed |-> n]
Failed(k, n) == [kind |-> k, value |-> <<0, 0>>, consumed |-> n]

Signed(result) == IF PyGt7FFFFFFF(result) THEN PySub2p32(result) ELSE result

MaxTimeouts == 3

\* MinecraftPing._read_varint: select with a 1 s timeout, three timeouts
\* allowed in total, recv(1); no limit on the number of bytes.
RECURSIVE MP_read_loop(_, _, _, _, _, _)
MP_read_loop(s, i, result, shift, timeout_count, n) ==
    IF timeout_count >= MaxTimeouts THEN Failed("error", n)
    ELSE IF i > Len(s) THEN Failed("error", n)              \* recv returned b'': break, raise
    ELSE IF s[i] = Stall
         THEN MP_read_loop(s, i + 1, result, shift, timeout_count + 1, n)
    ELSE LET r == PyOrShl(result, s[i] % 128, shift)
         IN  IF s[i] < 128 THEN Returned(Signed(r), n + 1)
             ELSE MP_read_loop(s, i + 1, r, shift + 7, timeout_count, n + 1)

MinecraftPing_read_varint(s) == MP_read_loop(s, 1, <<0, 0>>, 0, 0, 0)

\* forge_login_client.read_varint_from_socket: blocking recv(1) with a
\* timeout; the size test follows the break, so it is made only on bytes
\* that carry the continuation bit, and with shift > 35.
RECURSIVE forge_sock_loop(_, _, _, _)
forge_sock_loop(s, i, result, shift) ==
    IF i > Len(s) THEN Failed("none", i - 1)
    ELSE IF s[i] = Stall THEN Failed("timeout", i - 1)
    ELSE LET r == PyOrShl(result, s[i] % 128, shift)
             sh == shift + 7
         IN  IF s[i] < 128 THEN Returned(Signed(r), i)
             ELSE IF sh > 35 THEN Failed("error", i)
             ELSE forge_sock_loop(s, i + 1, r, sh)

\* the mutant: the result is returned without the conversion to a signed value
read_varint_from_socket_unsigned(s) ==
    LET o == forge_sock_loop(s, 1, <<0, 0>>, 0)
    IN  IF o.kind = "value" /\ PyIsNeg(o.value)
        THEN [o EXCEPT !.value = PyAdd2p32(o.value)] ELSE o

read_varint_from_socket(s) == forge_sock_loop(s, 1, <<0, 0>>, 0)

\* ForgeLoginClient._read_varint_from_bytes(data, offset): (value, consumed),
\* or (None, consumed) at the end of the buffer.
RECURSIVE forge_bytes_loop(_, _, _, _, _)
forge_bytes_loop(data, offset, idx, result, shift) ==
    IF idx >= Len(data) THEN Failed("none", idx - offset)
    ELSE LET byte == data[idx + 1]
             r == PyOrShl(result, byte % 128, shift)
             sh == shift + 7
         IN  IF byte < 128 THEN Returned(Signed(r), idx + 1 - offset)
             ELSE IF sh > 35 THEN Failed("error", idx + 1 - offset)
             ELSE forge_bytes_loop(data, offset, idx + 1, r, sh)

ForgeLoginClient_read_varint_from_bytes(data, offset) ==
    forge_bytes_loop(data, offset, offset, <<0, 0>>, 0)

\* MinecraftQuery._read_varint: blocking recv(1); no size test, no sign
\* conversion.  A stall is the socket's timeout leaving the reader.
RECURSIVE MQ_sock_loop(_, _, _, _)
MQ_sock_loop(s, i, result, shift) ==
    IF i > Len(s) THEN Failed("none", i - 1)
    ELSE IF s[i] = Stall THEN Failed("timeout", i - 1)
    ELSE LET r == PyOrShl(result, s[i] % 128, shift)
         IN  IF s[i] < 128 THEN Returned(r, i)
             ELSE MQ_sock_loop(s, i + 1, r, shift + 7)

MinecraftQuery_read_varint(s) == MQ_sock_loop(s, 1, <<0, 0>>, 0)

\* MinecraftQuery._read_varint_from_bytes(data): (value, index) or (None, index)
RECURSIVE MQ_bytes_loop(_, _, _, _)
MQ_bytes_loop(data, index, result, shift) ==
    IF index >= Len(data) THEN Failed("none", index)
    ELSE LET byte == data[index + 1]
             r == PyOrShl(result, byte % 128, shift)
         IN  IF byte < 128 THEN Returned(r, index + 1)
             ELSE MQ_bytes_loop(data, index + 1, r, shift + 7)

MinecraftQuery_read_varint_from_bytes(data) == MQ_bytes_loop(data, 0, <<0, 0>>, 0)

(***************************************************************************)
(* SpecVarint: the inputs are drawn by Init, the actions apply the codec.  *)
(***************************************************************************)
NoOut == [kind |-> "init", value |-> <<0, 0>>, consumed |-> 0]

\* the codec at rest
VarintIdle ==
    /\ vVal = PyInt(0)
    /\ vStream = <<>>
    /\ vOp = "init"
    /\ vOut = NoOut

InitVarint ==
    /\ \/ vVal \in {PyInt(v) : v \in VarIntSamples} /\ vStream = <<>>
       \/ vVal = PyInt(0) /\ vStream \in Streams
    /\ vOp = "init"
    /\ vOut = NoOut

Apply(op, out) ==
    /\ vOp' = op
    /\ vOut' = out
    /\ UNCHANGED <<vVal, vStream>>
    /\ UNCHANGED <<monitorVars, cacheVars, flagVars, cancelVars, recordVars,
                   extVars>>

\* decode(encode(v)) for the three encoder/decoder pairs
RoundTripPing ==
    /\ vStream = <<>>
    /\ Apply("rt_ping", MinecraftPing_read_varint(MinecraftPing_pack_varint(vVal).bytes))

RoundTripForgeSocket ==
    /\ vStream = <<>>
    /\ Apply("rt_forge_socket", read_varint_from_socket(pack_varint(vVal).bytes))

RoundTripForgeBytes ==
    /\ vStream = <<>>
    /\ Apply("rt_forge_bytes",
             ForgeLoginClient_read_varint_from_bytes(pack_varint(vVal).bytes, 0))

\* the readers on an arbitrary stream
ReadPing == Apply("read_ping", MinecraftPing_read_varint(vStream))

ReadForgeSocket == Apply("read_forge_socket", read_varint_from_socket(vStream))

ReadForgeBytes ==
    /\ IsBytes(vStream)
    /\ \E offset \in 0..1 :
         /\ offset <= Len(vStream)
         /\ Apply("read_forge_bytes",
                  ForgeLoginClient_read_varint_from_bytes(vStream, offset))

(***************************************************************************)
(* Framing of the Forge login client (forge_login_client.py:104-158).      *)
(***************************************************************************)
\* bound: the longest drawn payload
MaxPayloadLen == 3

\* a payload long enough for a two byte length prefix
LongPayload == [k \in 1..130 |-> 0]

Payloads == SeqsUpTo(ByteSamples, MaxPayloadLen) \cup {LongPayload}

\* the sizes of the pieces recv(to_read) hands out: byte by byte, in pairs
\* or everything that was asked for; the long payload comes in two or three
\* pieces or in one
ChunkSizes(payload) ==
    IF Len(payload) <= MaxPayloadLen THEN {1, 2, 200} ELSE {64, 200}

PyToInt(n) == n[1] * P28 + n[2]

Min(a, b) == IF a < b THEN a ELSE b

\* send_packet: what sendall is given
send_packet(packet_id, payload) ==
    LET packet_body == pack_varint(packet_id).bytes \o payload
    IN  pack_varint(PyInt(Len(packet_body))).bytes \o packet_body

NoPacket(kind) == [kind |-> kind, value |-> <<0, 0>>, consumed |-> 0,
                   payload |-> <<>>]

\* the recv loop of read_packet (lines 145-150): pos bytes of s are taken;
\* the result is the data read, or "none" at end of file or on a timeout
RECURSIVE recv_loop(_, _, _, _, _)
recv_loop(s, pos, data, to_read, chunk) ==
    IF to_read <= 0 THEN [kind |-> "data", data |-> data]
    ELSE IF pos >= Len(s) \/ s[pos + 1] = Stall
    THEN [kind |-> "none", data |-> data]
    ELSE LET want == Min(Min(chunk, to_read), Len(s) - pos)
             stalls == {k \in 1..want : s[pos + k] = Stall}
             got == IF stalls = {} THEN want
                    ELSE (CHOOSE k \in stalls : \A j \in stalls : k <= j) - 1
         IN  recv_loop(s, pos + got, data \o SubSeq(s, pos + 1, pos + got),
                       to_read - got, chunk)

\* the mutant: at end of file the bytes read so far are parsed as the packet
recv_loop_keep_partial(s, pos, data, to_read, chunk) ==
    [kind |-> "data", data |-> recv_loop(s, pos, data, to_read, chunk).data]

read_loop(s, pos, data, to_read, chunk) ==
    recv_loop(s, pos, data, to_read, chunk)

\* read_packet: (packet_id, payload), or (None, None) on end of file or
\* timeout, or the exception of a VarInt reader
read_packet(s, chunk) ==
    LET length == read_varint_from_socket(s)
    IN  IF length.kind \in {"none", "timeout"} THEN NoPacket("none")
        ELSE IF length.kind = "error" THEN NoPacket("error")
        ELSE LET r == read_loop(s, length.consumed, <<>>,
                                PyToInt(length.value), chunk)
                 id == ForgeLoginClient_read_varint_from_bytes(r.data, 0)
             IN  IF r.kind = "none" THEN NoPacket("none")
                 ELSE IF id.kind = "error" THEN NoPacket("error")
                 ELSE IF id.kind = "none" THEN NoPacket("none")
                 ELSE [kind |-> "packet", value |-> id.value,
                       consumed |-> Len(s),
                       payload |-> SubSeq(r.data, id.consumed + 1,
                                          Len(r.data))]

\* what a framing step leaves: the reader's outcome, the payload that was
\* framed and the bytes that were sent
Framed(out, payload, frame) ==
    [kind |-> out.kind, value |-> out.value, consumed |-> out.consumed,
     payload |-> out.payload, sent |-> payload, frame |-> frame]

CutLast(s) == SubSeq(s, 1, Len(s) - 1)

\* send_packet, then read_packet on exactly the bytes sent
FrameExact ==
    /\ vOp = "init"
    /\ vStream = <<>>
    /\ \E payload \in Payloads : \E chunk \in ChunkSizes(payload) :
          LET frame == send_packet(vVal, payload)
          IN  Apply("frame_exact",
                    Framed(read_packet(frame, chunk), payload, frame))

\* read_packet on the bytes sent without their last byte; then the peer
\* closes, or stays silent until the timeout
FrameCut ==
    /\ vOp = "init"
    /\ vStream = <<>>
    /\ \E payload \in Payloads, silent \in BOOLEAN :
       \E chunk \in ChunkSizes(payload) :
          LET frame == send_packet(vVal, payload)
              seen == IF silent THEN Append(CutLast(frame), Stall)
                      ELSE CutLast(frame)
          IN  Apply("frame_cut",
                    Framed(read_packet(seen, chunk), payload, frame))

\* what an encoder call left: its bytes, or the bytes written so far by a
\* loop that is still running
Packed(r) ==
    [kind |-> IF r.terminated THEN "packed" ELSE "running",
     value |-> <<0, 0>>, consumed |-> 0, bytes |-> r.bytes]

\* the three encoders on a drawn value
PackPing ==
    /\ vStream = <<>>
    /\ Apply("pack_ping", Packed(MinecraftPing_pack_varint(vVal)))

PackForge ==
    /\ vStream = <<>>
    /\ Apply("pack_forge", Packed(pack_varint(vVal)))

PackQuery ==
    /\ vStream = <<>>
    /\ Apply("pack_query", Packed(MinecraftQuery_pack_varint(vVal)))

ReadQuerySocket == Apply("read_query_socket", MinecraftQuery_read_varint(vStream))

ReadQueryBytes ==
    /\ IsBytes(vStream)
    /\ Apply("read_query_bytes", MinecraftQuery_read_varint_from_bytes(vStream))

NextVarint ==
    \/ RoundTripPing
    \/ RoundTripForgeSocket
    \/ RoundTripForgeBytes
    \/ ReadPing
    \/ ReadForgeSocket
    \/ ReadForgeBytes
    \/ ReadQuerySocket
    \/ ReadQueryBytes
    \/ PackPing
    \/ PackForge
    \/ PackQuery
    \/ FrameExact
    \/ FrameCut

(***************************************************************************)
(* C9  VarInt round trip: for every v of the list (-1, 0, 1, 127, 128,     *)
(* 16383, 16384, 2^31-1 and the further samples) decoding the bytes the    *)
(* encoder produced returns v, having consumed exactly those bytes, for    *)
(* MinecraftPing._pack_varint/_read_varint and for pack_varint with        *)
(* read_varint_from_socket and with _read_varint_from_bytes.               *)
(***************************************************************************)
RoundTripOps == {"rt_ping", "rt_forge_socket", "rt_forge_bytes"}

C9_RoundTrip ==
    vOp \in RoundTripOps =>
        /\ vOut.kind = "value"
        /\ vOut.value = vVal
        /\ vOut.consumed = Len(pack_varint(vVal).bytes)

\* -1 went through the socket reader of the Forge client and came back
C9_Witness ==
    /\ vOp = "rt_forge_socket"
    /\ vVal = PyInt(-1)
    /\ vOut.kind = "value"
    /\ vOut.consumed = 5

(***************************************************************************)
(* C10  Every VarInt reader enforces the 5 byte cap: no reader returns a   *)
(* value after consuming more than 5 bytes.                                *)
(***************************************************************************)
ReadOps == {"read_ping", "read_forge_socket", "read_forge_bytes",
            "read_query_socket", "read_query_bytes"}

C10_FiveByteCap ==
    (vOp \in ReadOps /\ vOut.kind = "value") => vOut.consumed <= 5

(***************************************************************************)
(* C11  Every encoder turns a negative 32 bit value into the VarInt of its *)
(* unsigned two's complement and terminates: the output has exactly 5      *)
(* bytes, and -1 gives FF FF FF FF 0F.                                     *)
(***************************************************************************)
PackOps == {"pack_ping", "pack_forge", "pack_query"}

C11_NegativeFiveBytes ==
    (vOp \in PackOps /\ PyIsNeg(vVal)) =>
        /\ vOut.kind = "packed"
        /\ Len(vOut.bytes) = 5
        /\ vVal = PyInt(-1) => vOut.bytes = <<255, 255, 255, 255, 15>>

(***************************************************************************)
(* C12  Framing: send_packet emits varint(len(varint(i) ++ p)) ++          *)
(* varint(i) ++ p; read_packet on exactly these bytes returns (i, p), and  *)
(* on these bytes without the last one it returns no packet.               *)
(***************************************************************************)
C12_Framing ==
    /\ vOp \in {"frame_exact", "frame_cut"} =>
          LET body == pack_varint(vVal).bytes \o vOut.sent
          IN  vOut.frame = pack_varint(PyInt(Len(body))).bytes \o body
    /\ vOp = "frame_exact" =>
          /\ vOut.kind = "packet"
          /\ vOut.value = vVal
          /\ vOut.payload = vOut.sent
    /\ vOp = "frame_cut" => vOut.kind # "packet"

\* packet id -1 with the long payload: a two byte length, a five byte id
C12_Witness ==
    /\ vOp = "frame_exact"
    /\ vVal = PyInt(-1)
    /\ vOut.sent = LongPayload
    /\ vOut.kind = "packet"
    /\ vOut.payload = LongPayload
    /\ Len(vOut.frame) = 2 + 5 + Len(LongPayload)

(***************************************************************************)
(* Text.  A string is a sequence of characters; SECT is the section sign   *)
(* that starts a Minecraft formatting code.                                *)
(***************************************************************************)
SECT == "SECT"

\* the characters of the class [0-9a-fklmnor]
CodeChars == {"0", "1", "2", "3", "4", "5", "6", "7", "8", "9",
              "a", "b", "c", "d", "e", "f", "k", "l", "m", "n", "o", "r"}

\* MinecraftPing.clean_mc_formatting: re.sub(SECT[0-9a-fklmnor], '', text),
\* the matches taken left to right without overlap.
RECURSIVE clean_from(_, _)
clean_from(text, i) ==
    IF i > Len(text) THEN <<>>
    ELSE IF text[i] = SECT /\ i < Len(text) /\ text[i + 1] \in CodeChars
         THEN clean_from(text, i + 2)
         ELSE <<text[i]>> \o clean_from(text, i + 1)

clean_mc_formatting(text) == clean_from(text, 1)

(***************************************************************************)
(* ServerMonitor: what a probe can return.                                 *)
(***************************************************************************)
Alice == <<"A", "l", "i", "c", "e">>
Bob == <<"B", "o", "b">>
Carol == <<"C", "a", "r", "o", "l">>
GreenAlice == <<SECT, "a">> \o Alice

\* the players.sample lists a Java server may send (as sets of raw names)
RawSamples == {{GreenAlice, Bob}, {Bob, Carol}}

OnlineCounts == {3, 5}

\* error texts of a failed probe
ErrorTexts == {"timed out", "Connection refused"}

\* number of probes of one monitor run
MaxProbes == 4

NoResult == [error |-> "None", online |-> 0, hasSample |-> FALSE, sample |-> {}]

OnlineResult(n, hasSample, sample) ==
    [error |-> "", online |-> n, hasSample |-> hasSample, sample |-> sample]

OfflineResult(msg) ==
    [error |-> msg, online |-> 0, hasSample |-> FALSE, sample |-> {}]

\* 'error' not in result
IsOnline(r) == r.error = ""

\* what MinecraftPing.ping(..., use_cache=False, server_type) may hand to the
\* monitor: an error result, or a status with players.online and, for Java,
\* an optional players.sample
ProbeResults(type) ==
    {OfflineResult(m) : m \in ErrorTexts}
    \cup {OnlineResult(n, FALSE, {}) : n \in OnlineCounts}
    \cup (IF type = "java"
          THEN {OnlineResult(n, TRUE, s) : n \in OnlineCounts, s \in RawSamples}
          ELSE {})

(***************************************************************************)
(* MonitorEvent.  message is the text as a sequence of words; probe is a   *)
(* history field, the number of the check_server_status call that added    *)
(* the event (0: added outside check_server_status).                       *)
(***************************************************************************)
NoPlayer == <<>>

Event(type, message, player_name, diff, probe) ==
    [type |-> type, message |-> message, player_name |-> player_name,
     diff |-> diff, probe |-> probe]

\* the set of the orders in which a for loop may visit the Python set S
Orders(S) ==
    {f \in [1..Cardinality(S) -> S] : \A i, j \in 1..Cardinality(S) : i # j => f[i] # f[j]}

\* the mutant: a status_change on every offline result, changed or not
StatusEvents_every_offline(last, current, k) ==
    IF last # NoResult /\ ~IsOnline(current)
    THEN <<Event("status_change",
                 <<"status:", "online", "->", "offline", current.error>>, NoPlayer, 0, k)>>
    ELSE IF last # NoResult /\ ~IsOnline(last)
    THEN <<Event("status_change", <<"status:", "offline", "->", "online">>,
                 NoPlayer, 0, k)>>
    ELSE <<>>

\* lines 1184-1194: the status_change events of one check
StatusEvents(last, current, k) ==
    IF last # NoResult /\ IsOnline(last) # IsOnline(current)
    THEN IF IsOnline(current)
         THEN <<Event("status_change", <<"status:", "offline", "->", "online">>,
                      NoPlayer, 0, k)>>
         ELSE <<Event("status_change",
                      <<"status:", "online", "->", "offline", current.error>>,
                      NoPlayer, 0, k)>>
    ELSE <<>>

\* the mutant: the difference is taken the wrong way round
CountEvents_reversed(last_count, current_count, k) ==
    IF last_count >= 0 /\ current_count # last_count
    THEN <<Event("player_count", <<"players:", last_count, "->", current_count>>,
                 NoPlayer, last_count - current_count, k)>>
    ELSE <<>>

\* lines 1204-1206: the player_count events of one check
CountEvents(last_count, current_count, k) ==
    IF last_count >= 0 /\ current_count # last_count
    THEN <<Event("player_count", <<"players:", last_count, "->", current_count>>,
                 NoPlayer, current_count - last_count, k)>>
    ELSE <<>>

\* lines 1213-1220: the cleaned names of the sample, the empty set without one
CurrentPlayers(current) ==
    IF current.hasSample THEN {clean_mc_formatting(n) : n \in current.sample} ELSE {}

\* lines 1224-1226 and 1229-1231
JoinEvents(order, k) ==
    [i \in DOMAIN order |-> Event("player_join", <<"joined:", order[i]>>, order[i], 0, k)]

LeaveEvents(order, k) ==
    [i \in DOMAIN order |-> Event("player_leave", <<"left:", order[i]>>, order[i], 0, k)]

\* the mutant: the leave loop runs before the join loop
CheckOrder_leave_first(status, count, joins, leaves) == status \o count \o leaves \o joins

\* the order in which check_server_status calls add_event
CheckOrder(status, count, joins, leaves) == status \o count \o joins \o leaves

\* time.time() at check number k: later at each check
time_of_probe(k) == k

\* the record as add_server and load_servers make it: never queried, the
\* two history rings empty
FreshServer == [last_query |-> 0, query_history |-> <<>>, player_history |-> <<>>]

\* ServerMonitor.check_server_status with the probe's result given, run on
\* the queue content q: the events go to the queue (add_event) in the order
\* of the calls, the last_* fields are updated.
check_server_status(q, current) ==
    LET k == Len(mProbes) + 1
        online == IsOnline(current)
        java == (mType = "java")
        players == CurrentPlayers(current)
    IN  /\ mProbes' = Append(mProbes, current)
        /\ \E joins \in Orders(IF online /\ java THEN players \ last_players ELSE {}),
              leaves \in Orders(IF online /\ java THEN last_players \ players ELSE {}) :
             event_queue' = q \o
                 CheckOrder(StatusEvents(last_result, current, k),
                            IF online THEN CountEvents(last_player_count, current.online, k)
                                      ELSE <<>>,
                            JoinEvents(joins, k), LeaveEvents(leaves, k))
        /\ last_player_count' = IF online THEN current.online ELSE last_player_count
        /\ last_players' = IF online /\ java THEN players ELSE last_players
        /\ last_result' = current
        \* line 1182: server['last_query'] = time.time(), the only write to
        \* the record
        /\ m_server' = [m_server EXCEPT !.last_query = time_of_probe(k)]

\* the mutant: the drained events are put in front of the list
process_event_queue_front == event_queue \o all_events

\* ServerMonitor._process_event_queue: all_events after the queue was drained
process_event_queue == all_events \o event_queue

\* no monitor was made
MonitorIdle ==
    /\ mType = "java"
    /\ m_server = FreshServer
    /\ last_result = NoResult
    /\ last_players = {}
    /\ last_player_count = -1
    /\ event_queue = <<>>
    /\ all_events = <<>>
    /\ mProbes = <<>>

\* ServerMonitor.__init__: the "monitoring started" event is in the queue
InitMonitor ==
    /\ mType \in {"java", "bedrock"}
    /\ m_server = FreshServer
    /\ last_result = NoResult
    /\ last_players = {}
    /\ last_player_count = -1
    /\ event_queue = <<Event("info", <<"start">>, NoPlayer, 0, 0)>>
    /\ all_events = <<>>
    /\ mProbes = <<>>

\* one iteration of ServerMonitor._monitor_loop: drain the queue, probe,
\* derive the events (the sleep that follows changes nothing)
MonitorLoop ==
    /\ Len(mProbes) < MaxProbes
    /\ \E current \in ProbeResults(mType) :
         /\ all_events' = process_event_queue
         /\ check_server_status(<<>>, current)
    /\ UNCHANGED <<mType, varintVars, cacheVars, flagVars, cancelVars,
                   recordVars, extVars>>

NextMonitor ==
    \/ MonitorLoop

(***************************************************************************)
(* The event stream of the monitor: what was drained, then what waits in   *)
(* the queue.  EventsOf(k) are the events check number k added, in order.  *)
(***************************************************************************)
Stream == all_events \o event_queue

EventsOf(k) == SelectSeq(Stream, LAMBDA e : e.probe = k)

OfType(evs, t) == SelectSeq(evs, LAMBDA e : e.type = t)

NamesOf(evs) == {evs[i].player_name : i \in 1..Len(evs)}

(***************************************************************************)
(* C1  For two consecutive successful Java probe results with online       *)
(* counts a then b and (cleaned) sample name sets P then Q, the second     *)
(* check adds exactly one player_count event, with diff = b - a, if        *)
(* a # b and none if a = b; exactly one player_join per name of Q \ P,     *)
(* exactly one player_leave per name of P \ Q, and no other join or leave. *)
(***************************************************************************)
C1_PlayerDiff ==
    \A k \in 2..Len(mProbes) :
        (mType = "java" /\ IsOnline(mProbes[k - 1]) /\ IsOnline(mProbes[k])) =>
            LET a == mProbes[k - 1].online
                b == mProbes[k].online
                P == CurrentPlayers(mProbes[k - 1])
                Q == CurrentPlayers(mProbes[k])
                counts == OfType(EventsOf(k), "player_count")
                joins == OfType(EventsOf(k), "player_join")
                leaves == OfType(EventsOf(k), "player_leave")
            IN  /\ Len(counts) = (IF a # b THEN 1 ELSE 0)
                /\ \A i \in 1..Len(counts) : counts[i].diff = b - a
                /\ NamesOf(joins) = Q \ P
                /\ Len(joins) = Cardinality(Q \ P)
                /\ NamesOf(leaves) = P \ Q
                /\ Len(leaves) = Cardinality(P \ Q)

\* 3 then 5 with the same sample: one player_count with diff +2, no join,
\* no leave; and {Alice, Bob} then {Bob, Carol}: one join (Carol), one leave (Alice)
C1_Witness ==
    /\ mType = "java"
    /\ Len(mProbes) = 4
    /\ mProbes[1] = OnlineResult(3, TRUE, {GreenAlice, Bob})
    /\ mProbes[2] = OnlineResult(5, TRUE, {GreenAlice, Bob})
    /\ mProbes[3] = OnlineResult(5, TRUE, {Bob, Carol})
    /\ Len(EventsOf(2)) = 1
    /\ EventsOf(2)[1].type = "player_count"
    /\ EventsOf(2)[1].diff = 2
    /\ Len(EventsOf(3)) = 2
    /\ NamesOf(OfType(EventsOf(3), "player_join")) = {Carol}
    /\ NamesOf(OfType(EventsOf(3), "player_leave")) = {Alice}

(***************************************************************************)
(* C2  A status_change is added exactly when the online/offline status of  *)
(* two consecutive probe results differs: one event then, none otherwise   *)
(* (none at the first probe); the message of a change to offline holds the *)
(* probe's error text, the message of a change to online the word online.  *)
(* So online, online, offline(X), online gives exactly two status_change   *)
(* events, at the third probe (with X) and at the fourth (online).         *)
(***************************************************************************)
Words(e) == {e.message[i] : i \in 1..Len(e.message)}

C2_StatusChange ==
    /\ Len(OfType(EventsOf(1), "status_change")) = 0
    /\ \A k \in 2..Len(mProbes) :
         LET changes == OfType(EventsOf(k), "status_change")
             flipped == IsOnline(mProbes[k - 1]) # IsOnline(mProbes[k])
         IN  /\ Len(changes) = (IF flipped THEN 1 ELSE 0)
             /\ \A i \in 1..Len(changes) :
                  IF IsOnline(mProbes[k]) THEN "online" \in Words(changes[i])
                  ELSE mProbes[k].error \in Words(changes[i])

C2_Witness ==
    /\ Len(mProbes) = 4
    /\ IsOnline(mProbes[1]) /\ IsOnline(mProbes[2])
    /\ mProbes[3] = OfflineResult("Connection refused")
    /\ IsOnline(mProbes[4])
    /\ Len(OfType(Stream, "status_change")) = 2
    /\ "Connection refused" \in Words(OfType(EventsOf(3), "status_change")[1])
    /\ "online" \in Words(OfType(EventsOf(4), "status_change")[1])

(***************************************************************************)
(* C3  as claimed: in the event stream the player_leave events of a probe  *)
(* come before its player_join events, and the events of a probe come      *)
(* before the events of the next probe.                                    *)
(***************************************************************************)
ProbeOrdered ==
    \A i, j \in 1..Len(Stream) : i < j => Stream[i].probe <= Stream[j].probe

C3_LeaveBeforeJoin ==
    /\ ProbeOrdered
    /\ \A i, j \in 1..Len(Stream) :
         (i < j /\ Stream[i].probe = Stream[j].probe)
             => ~(Stream[i].type = "player_join" /\ Stream[j].type = "player_leave")

(***************************************************************************)
(* C3  as amended: in the event stream the events of a probe come before   *)
(* the events of the next probe, and within one probe the order is         *)
(* status_change, player_count, player_join, player_leave: the joins come  *)
(* before the leaves.  {Alice,Bob}, {Bob,Carol}, offline gives join Carol, *)
(* leave Alice, status_change to offline.                                  *)
(***************************************************************************)
Rank(t) == CASE t = "info" -> 0
             [] t = "status_change" -> 1
             [] t = "player_count" -> 2
             [] t = "player_join" -> 3
             [] t = "player_leave" -> 4

C3_JoinBeforeLeave ==
    /\ ProbeOrdered
    /\ \A i, j \in 1..Len(Stream) :
         (i < j /\ Stream[i].probe = Stream[j].probe)
             => Rank(Stream[i].type) <= Rank(Stream[j].type)

C3_Witness ==
    /\ mType = "java"
    /\ Len(mProbes) = 3
    /\ mProbes[1] = OnlineResult(3, TRUE, {GreenAlice, Bob})
    /\ mProbes[2] = OnlineResult(3, TRUE, {Bob, Carol})
    /\ mProbes[3] = OfflineResult("timed out")
    /\ \E i \in 1..Len(Stream) :
         /\ i + 2 = Len(Stream)
         /\ Stream[i].type = "player_join" /\ Stream[i].player_name = Carol
         /\ Stream[i + 1].type = "player_leave" /\ Stream[i + 1].player_name = Alice
         /\ Stream[i + 2].type = "status_change"
         /\ "timed out" \in Words(Stream[i + 2])

\* the kinds of event that tell a join or a leave
JoinLeave == {"player_join", "player_leave"}

(* C28: join/leave events are derived only for Java results that carry a   *)
(* player sample: when a successful Java probe result has no               *)
(* players.sample, check_server_status emits no player_join and no         *)
(* player_leave event for that probe.                                      *)
C28_NoSampleNoJoinLeave ==
    \A k \in 1..Len(mProbes) :
        (mType = "java" /\ IsOnline(mProbes[k]) /\ ~mProbes[k].hasSample)
        => \A i \in DOMAIN EventsOf(k) : EventsOf(k)[i].type \notin JoinLeave

\* the kinds of event that tell a difference between two results
DifferenceEvents ==
    {"status_change", "player_count", "player_join", "player_leave"}

(* C30: on the first probe of a monitor, when no previous result exists,   *)
(* check_server_status emits no status_change, no player_count, no         *)
(* player_join and no player_leave event, whatever the first result        *)
(* contains.                                                               *)
C30_FirstProbeSilent ==
    \A i \in DOMAIN EventsOf(1) : EventsOf(1)[i].type \notin DifferenceEvents

(***************************************************************************)
(* The endpoint caches of MinecraftPing (src/server.py:205-320).  A ping   *)
(* is taken at one instant of the clock: the several time.time() reads of  *)
(* one call see the same second.                                           *)
(***************************************************************************)
CACHE_DURATION == 60
SRV_CACHE_DURATION == 300

SERVER_TYPE_JAVA == "java"
SERVER_TYPE_BEDROCK == "bedrock"
ServerTypes == {SERVER_TYPE_JAVA, SERVER_TYPE_BEDROCK}

\* bound of the exploration: the number of ping calls
MaxPings == 2

\* the instants at which the clock is looked at: the start, and one second
\* before and exactly at the end of each of the two lifetimes
Instants == {0, CACHE_DURATION - 1, CACHE_DURATION,
             SRV_CACHE_DURATION - 1, SRV_CACHE_DURATION}

\* the endpoints named by callers and the SRV record of the zone
Hosts == {"play.example"}
Ports == {25565}
SrvRecords == {<<"node.example", 25570>>}
NoSrv == <<>>            \* resolve_srv_record returned None

\* what ping_java / ping_bedrock can come back with (both catch every
\* exception and return an error result instead)
ProbeAnswers == {[error |-> "", query_time |-> 12],
                 [error |-> "", query_time |-> 48],
                 [error |-> "timed out", query_time |-> 0]}

NoStamp == -1
NoSrvInfo == <<>>
NoEntry == <<>>
NoAnswer == <<>>
NoCall == <<>>
EmptyCache == <<>>

\* line 244
CanceledResult ==
    [error |-> "canceled", query_time |-> 0, query_timestamp |-> NoStamp,
     srv_info |-> NoSrvInfo, srv_fallback |-> FALSE]

create_srv_info(original_host, original_port, resolved_host, resolved_port) ==
    [original_host |-> original_host, original_port |-> original_port,
     resolved_host |-> resolved_host, resolved_port |-> resolved_port]

CacheFresh_inclusive(expiry, t) == t <= expiry

\* line 252: time.time() < expiry
CacheFresh(expiry, t) == t < expiry

SrvFresh_inclusive(srv_expiry, t) == t <= srv_expiry

\* line 302: time.time() < srv_expiry
SrvFresh(srv_expiry, t) == t < srv_expiry

\* _resolve_with_srv: the SRV cache is keyed by the host alone
resolve_with_srv(host, port) ==
    LET cached == /\ host \in DOMAIN srv_cache
                  /\ SrvFresh(srv_cache[host].expiry, now)
        found == ~cached /\ dns[host] # NoSrv
        target == IF cached THEN srv_cache[host].target
                  ELSE IF found THEN dns[host]
                  ELSE <<host, port>>
    IN  [resolved_host |-> target[1],
         resolved_port |-> target[2],
         used_srv |-> cached \/ found,
         srv_queried |-> ~cached,
         srv_cache |->
            IF found
            THEN (host :> [target |-> dns[host],
                           expiry |-> now + SRV_CACHE_DURATION]) @@ srv_cache
            ELSE srv_cache]

\* the status cache key of a call
cache_key(host, port, server_type) ==
    LET r == resolve_with_srv(host, port)
    IN  <<r.resolved_host, r.resolved_port, server_type>>

NoWire == <<>>

\* the dict a call returns is either a fresh one or the very dict that the
\* cache holds under a key
NoRef == <<>>

\* a probe that lets its failure out
probe_raising(server_type, answer) ==
    [raised |-> answer.error # "", result |-> answer]

\* ping_java / ping_bedrock as their caller sees them: whatever goes wrong
\* inside is caught by their own "except Exception" (lines 416, 486) and
\* comes back as an error result, so that nothing is raised
probe(server_type, answer) == [raised |-> FALSE, result |-> answer]

\* ping_java, lines 356-378: where the TCP connection goes and the fields
\* of the Handshake packet it sends
ping_java_wire(host, port) ==
    [connect |-> <<host, port>>,
     handshake |-> [packet_id |-> 0, protocol_version |-> -1,
                    host |-> host, port |-> port, next_state |-> 1]]

\* MinecraftPing.ping; answer is what the network probe returns if one is
\* made.  The result tells what the call returned, what it left in the two
\* caches, which endpoints it probed and whether it asked the resolver.
ping(host, port, use_cache, server_type, answer, retry) ==
    LET r == resolve_with_srv(host, port)
        key == <<r.resolved_host, r.resolved_port, server_type>>
        info == create_srv_info(host, port, r.resolved_host, r.resolved_port)
        hit == /\ use_cache
               /\ key \in DOMAIN cache
               /\ CacheFresh(cache[key].expiry, now)
        \* line 254: the cached dict itself gets the srv_info
        cached_data == IF r.used_srv
                       THEN [cache[key].data EXCEPT !.srv_info = info]
                       ELSE cache[key].data
        \* lines 259-262: what the probe of the resolved endpoint does
        first == probe(server_type, answer)
        result == [error |-> first.result.error,
                   query_time |-> first.result.query_time,
                   query_timestamp |-> now,
                   srv_info |-> IF r.used_srv THEN info ELSE NoSrvInfo,
                   srv_fallback |-> FALSE]
        \* lines 275-287: the probe of the original endpoint, made in the
        \* except clause if SRV was used
        second == probe(server_type, retry)
        fallback == [error |-> second.result.error,
                     query_time |-> second.result.query_time,
                     query_timestamp |-> now,
                     srv_info |-> NoSrvInfo,
                     srv_fallback |-> TRUE]
        \* line 289: _create_error_result(str(e), server_type)
        error_result == [error |-> "exception", query_time |-> 0,
                         query_timestamp |-> NoStamp, srv_info |-> NoSrvInfo,
                         srv_fallback |-> FALSE]
        \* lines 259-262: the probe is handed the resolved endpoint
        wire == IF server_type = SERVER_TYPE_BEDROCK THEN NoWire
                ELSE ping_java_wire(r.resolved_host, r.resolved_port)
    IN  IF global_cancel_query
        THEN [result |-> CanceledResult, cache |-> cache,
              srv_cache |-> srv_cache, probed |-> <<>>,
              srv_queried |-> FALSE, wire |-> NoWire, returned_ref |-> NoRef]
        \* line 255: "return cached_data", the dict held by the cache
        ELSE IF hit
        THEN [result |-> cached_data,
              cache |-> [cache EXCEPT ![key].data = cached_data],
              srv_cache |-> r.srv_cache, probed |-> <<>>,
              srv_queried |-> r.srv_queried, wire |-> NoWire,
              returned_ref |-> key]
        ELSE IF ~first.raised
        THEN [result |-> result,
              cache |-> (key :> [data |-> result,
                                 expiry |-> now + CACHE_DURATION]) @@ cache,
              srv_cache |-> r.srv_cache, probed |-> <<key>>,
              srv_queried |-> r.srv_queried, wire |-> wire,
              returned_ref |-> key]
        ELSE IF r.used_srv /\ ~second.raised /\ second.result.error = ""
        THEN [result |-> fallback, cache |-> cache,
              srv_cache |-> r.srv_cache,
              probed |-> <<key, <<host, port, server_type>>>>,
              srv_queried |-> r.srv_queried, wire |-> wire,
              returned_ref |-> NoRef]
        ELSE [result |-> error_result, cache |-> cache,
              srv_cache |-> r.srv_cache,
              probed |-> IF r.used_srv
                         THEN <<key, <<host, port, server_type>>>>
                         ELSE <<key>>,
              srv_queried |-> r.srv_queried, wire |-> wire,
              returned_ref |-> NoRef]

CacheIdle ==
    /\ now = 0
    /\ cache = EmptyCache
    /\ srv_cache = EmptyCache
    /\ dns = [h \in Hosts |-> NoSrv]
    /\ srv_answer = [h \in Hosts |-> NoAnswer]
    /\ call = NoCall
    /\ pings = 0

FlagIdle == global_cancel_query = FALSE

\* both caches start empty (lines 205-206); the zone may hold an SRV record
InitCache ==
    /\ now = 0
    /\ cache = EmptyCache
    /\ srv_cache = EmptyCache
    /\ dns \in [Hosts -> SrvRecords \cup {NoSrv}]
    /\ srv_answer = [h \in Hosts |-> NoAnswer]
    /\ call = NoCall
    /\ pings = 0

\* one call of MinecraftPing.ping, with a record of what it found and did
\* the answers the probe of the original endpoint can give; it is made only
\* in the except clause
RetryAnswers(server_type, answer) ==
    IF probe(server_type, answer).raised THEN ProbeAnswers ELSE {answer}

\* a caller calls ping with a host of hosts and a port of ports
PingFrom(hosts, ports) ==
    /\ pings < MaxPings
    /\ \E host \in hosts, port \in ports, use_cache \in BOOLEAN,
          server_type \in ServerTypes, answer \in ProbeAnswers :
       \E retry \in RetryAnswers(server_type, answer) :
          LET p == ping(host, port, use_cache, server_type, answer, retry)
              key == cache_key(host, port, server_type)
          IN  /\ cache' = p.cache
              /\ srv_cache' = p.srv_cache
              /\ srv_answer' =
                    IF p.srv_queried /\ dns[host] # NoSrv
                    THEN [srv_answer EXCEPT
                            ![host] = [target |-> dns[host], at |-> now]]
                    ELSE srv_answer
              /\ call' = [host |-> host, port |-> port,
                          use_cache |-> use_cache,
                          server_type |-> server_type,
                          at |-> now,
                          canceled |-> global_cancel_query,
                          key |-> key,
                          stored |-> IF key \in DOMAIN cache
                                     THEN cache[key] ELSE NoEntry,
                          srv_stored |-> IF host \in DOMAIN srv_cache
                                         THEN srv_cache[host] ELSE NoEntry,
                          srv_known |-> srv_answer[host],
                          probed |-> p.probed,
                          srv_queried |-> p.srv_queried,
                          wire |-> p.wire,
                          used_srv |-> resolve_with_srv(host, port).used_srv,
                          result |-> p.result,
                          returned_ref |-> p.returned_ref,
                          left |-> IF key \in DOMAIN p.cache
                                   THEN p.cache[key] ELSE NoEntry]
    /\ pings' = pings + 1
    /\ UNCHANGED <<now, dns, flagVars, varintVars, monitorVars, cancelVars,
                   recordVars, extVars>>

Ping == PingFrom(Hosts, Ports)

\* time passes
Tick ==
    /\ \E t \in Instants : t > now /\ now' = t
    /\ UNCHANGED <<cache, srv_cache, dns, srv_answer, call, pings,
                   flagVars, varintVars, monitorVars, cancelVars,
                   recordVars, extVars>>

\* the zone's SRV record is added, changed or removed
DnsChange ==
    /\ \E h \in Hosts, t \in SrvRecords \cup {NoSrv} :
          /\ dns[h] # t
          /\ dns' = [dns EXCEPT ![h] = t]
    /\ UNCHANGED <<now, cache, srv_cache, srv_answer, call, pings,
                   flagVars, varintVars, monitorVars, cancelVars,
                   recordVars, extVars>>

\* clear_all_caches (the 'clear' command; 'r' does the same, line 1941)
clear_all_caches ==
    /\ cache' = EmptyCache
    /\ srv_cache' = EmptyCache
    /\ UNCHANGED <<now, dns, srv_answer, call, pings,
                   flagVars, varintVars, monitorVars, cancelVars,
                   recordVars, extVars>>

\* sigint_handler outside chat mode (line 1779)
sigint_handler == global_cancel_query' = TRUE

\* the end of a fan-out (line 872) or of scan_all_ports (line 1605)
reset_cancel == global_cancel_query' = FALSE

CtrlC ==
    /\ ~global_cancel_query
    /\ sigint_handler
    /\ UNCHANGED <<cacheVars, varintVars, monitorVars, cancelVars, recordVars,
                   extVars>>

CancelReset ==
    /\ global_cancel_query
    /\ reset_cancel
    /\ UNCHANGED <<cacheVars, varintVars, monitorVars, cancelVars, recordVars,
                   extVars>>

NextCache ==
    \/ Ping
    \/ Tick
    \/ DnsChange
    \/ clear_all_caches
    \/ CtrlC
    \/ CancelReset

(***************************************************************************)
(* Claims about the caches.  They speak of the last ping call: what it     *)
(* found stored (call.stored, call.srv_stored), what the resolver had      *)
(* returned before it (call.srv_known), what it did (call.probed,          *)
(* call.srv_queried), what it returned and what it left under its key.     *)
(* The age of a status entry is counted from the query_timestamp of the    *)
(* stored result, the age of an SRV answer from the resolver's return.     *)
(***************************************************************************)
Called == call # NoCall

StoredAge == call.at - call.stored.data.query_timestamp

\* the call returned what was stored: same outcome, query time and stamp
ReturnedStored ==
    /\ call.probed = <<>>
    /\ call.result.error = call.stored.data.error
    /\ call.result.query_time = call.stored.data.query_time
    /\ call.result.query_timestamp = call.stored.data.query_timestamp
    /\ call.left # NoEntry
    /\ call.left.expiry = call.stored.expiry

\* the call probed its endpoint anew and put the new result under the key
ProbedAndReplaced ==
    /\ call.probed = <<call.key>>
    /\ call.result.query_timestamp = call.at
    /\ call.left # NoEntry
    /\ call.left.data = call.result

CacheContract ==
    /\ StoredAge < CACHE_DURATION => ReturnedStored
    /\ StoredAge >= CACHE_DURATION => ProbedAndReplaced

(* C4, as stated: a ping with use_cache=True returns the stored result     *)
(* (same query time, no new probe) whenever an entry for its key is        *)
(* younger than 60 s, and probes anew and replaces the entry once the      *)
(* entry is 60 s old or older.                                             *)
C4_CacheHit60 ==
    (Called /\ call.use_cache /\ call.stored # NoEntry) => CacheContract

(* C4, amended: the same, for the calls that start with the cancel flag    *)
(* clear; a call that finds the flag set returns canceled at once and      *)
(* neither reads the cache nor probes.                                     *)
C4_CacheHit60_NotCanceled ==
    (Called /\ call.use_cache /\ call.stored # NoEntry /\ ~call.canceled)
        => CacheContract

\* a hit on an entry one second before its end
C4_Witness ==
    /\ Called /\ call.use_cache /\ ~call.canceled
    /\ call.stored # NoEntry
    /\ StoredAge = CACHE_DURATION - 1
    /\ ReturnedStored

SrvAge == call.at - call.srv_known.at

KnownTarget ==
    <<call.srv_known.target[1], call.srv_known.target[2], call.server_type>>

(* C5, as stated: once the resolver has returned a target for a host,      *)
(* every ping for that host during the next 300 s probes that target and   *)
(* issues no SRV query; a call after the 300 s issues a new SRV query.     *)
C5_SrvLifetime ==
    (Called /\ call.srv_known # NoAnswer) =>
        /\ SrvAge < SRV_CACHE_DURATION =>
              /\ ~call.srv_queried
              /\ call.probed = <<KnownTarget>>
        /\ SrvAge >= SRV_CACHE_DURATION => call.srv_queried

\* the status cache answered the call
StatusHit ==
    /\ call.use_cache
    /\ call.stored # NoEntry
    /\ StoredAge < CACHE_DURATION
    /\ call.probed = <<>>

(* C5, amended: for the calls that start with the cancel flag clear, and   *)
(* while the SRV entry has not been cleared: during the 300 s no SRV query *)
(* is issued and the call resolves to the returned target, which it probes *)
(* unless the status cache answers; at 300 s or later a new SRV query is   *)
(* issued.                                                                 *)
C5_SrvLifetime_NotCanceled ==
    (Called /\ call.srv_known # NoAnswer /\ ~call.canceled) =>
        /\ (SrvAge < SRV_CACHE_DURATION /\ call.srv_stored # NoEntry) =>
              /\ ~call.srv_queried
              /\ call.key = KnownTarget
              /\ call.probed = <<KnownTarget>> \/ StatusHit
        /\ SrvAge >= SRV_CACHE_DURATION => call.srv_queried

\* a probe of the cached target one second before the SRV entry ends
C5_Witness ==
    /\ Called /\ ~call.canceled
    /\ call.srv_known # NoAnswer
    /\ call.srv_stored # NoEntry
    /\ SrvAge = SRV_CACHE_DURATION - 1
    /\ ~call.srv_queried
    /\ call.probed = <<KnownTarget>>

\* SRV resolution sent the call to another endpoint than the one named
Redirected == <<call.key[1], call.key[2]>> # <<call.host, call.port>>

(* C13: when SRV resolution redirects a Java status probe, the TCP         *)
(* connection goes to the resolved address and the Handshake packet sent   *)
(* there still carries the original, pre-SRV host string.                  *)
C13_HandshakeOriginalHost ==
    (Called /\ call.wire # NoWire /\ Redirected) =>
        /\ call.wire.connect = <<call.key[1], call.key[2]>>
        /\ call.wire.handshake.host = call.host

\* the probe of the SRV target was made and failed
SrvProbeFailed ==
    /\ Called /\ call.used_srv
    /\ call.probed # <<>>
    /\ call.probed[1] = call.key
    /\ ~call.result.srv_fallback => call.result.error # ""

(* C21: if SRV resolution was used and the probe of the SRV target fails,  *)
(* ping retries exactly once against the original host and port and, if    *)
(* the retry succeeds, returns the retry's result marked srv_fallback.     *)
C21_SrvFallback ==
    SrvProbeFailed =>
        /\ call.probed = <<call.key, <<call.host, call.port, call.server_type>>>>
        /\ call.result.error = "" => call.result.srv_fallback

(***************************************************************************)
(* Cache hits and the dict they hand out.  Callers name the host with      *)
(* either of two ports: the SRV lookup goes by host alone, so that with an *)
(* SRV record both calls resolve to the same endpoint and the same cache   *)
(* key.                                                                    *)
(***************************************************************************)
CallerPorts == {25565, 25566}

PingAnyPort == PingFrom(Hosts, CallerPorts)

\* the caller writes into the dict it was handed; the write lands in the
\* object, whoever else holds it
CallerEdit ==
    /\ Called
    /\ ~call.canceled
    /\ call.result.error # "edited"
    /\ call' = [call EXCEPT !.result.error = "edited"]
    /\ cache' = IF call.returned_ref \in DOMAIN cache
                THEN [cache EXCEPT ![call.returned_ref].data.error = "edited"]
                ELSE cache
    /\ UNCHANGED <<now, srv_cache, dns, srv_answer, pings, flagVars,
                   varintVars, monitorVars, cancelVars, recordVars, extVars>>

NextHit ==
    \/ PingAnyPort
    \/ CallerEdit

\* the call was answered from the status cache
HitCall ==
    /\ Called
    /\ ~call.canceled
    /\ call.use_cache
    /\ call.stored # NoEntry
    /\ call.probed = <<>>

(* C22: a status-cache hit returns a copy and leaves the cache entry       *)
(* unchanged: the srv_info of the current call is never stored into the    *)
(* cached entry, and a caller mutating the returned result does not change *)
(* what later hits return.                                                 *)
C22_HitReturnsCopy ==
    HitCall =>
        /\ call.left = call.stored
        /\ cache[call.key] = call.stored

(***************************************************************************)
(* The main loop, its long operations and the process-wide cancel flag     *)
(* (src/server.py: main 1782-, query_servers_concurrently 793-849,         *)
(* _show_loading_animation 851-873, scan_ports 1385-1441, scan_all_ports   *)
(* 1443-1607, sigint_handler 1767-1780).  The probes of a fan-out find the  *)
(* status cache cold, so each one goes to the network.                     *)
(***************************************************************************)
\* bounds of the exploration
MaxChunks == 2       \* recv calls the JSON body of a status answer takes
MaxScanPorts == 2    \* ports of the common list that scan_ports walks
MaxQueuedPorts == 2  \* ports in the queue of scan_all_ports

\* the pages display_servers is given: none, one or two servers
Fleets == {<<>>, <<SERVER_TYPE_JAVA>>, <<SERVER_TYPE_JAVA, SERVER_TYPE_BEDROCK>>}

\* results[i] before task i wrote it
NoSlot == "None"

\* a probe is in flight from the entry test of ping (line 243) to its return
InFlight(t) == t.pc \in {"exchange", "json"}

\* only ping_java tests the flag again (line 398); ping_bedrock never does
CheckpointAhead(t) == InFlight(t) /\ t.type = SERVER_TYPE_JAVA
Alive(t) == t.pc # "done"

NewThread(type) ==
    [type |-> type, pc |-> "entry", chunks |-> 0, slot |-> NoSlot,
     in_flight_at_cancel |-> FALSE]

CancelIdle ==
    /\ mainPc = "loop_top"
    /\ fleet = <<>>
    /\ thr = <<>>
    /\ results = <<>>
    /\ scan_i = 0
    /\ port_queue = 0
    /\ sigint_in_op = FALSE
    /\ stale_cancel_seen = FALSE

\* main() enters its loop with the flag clear (line 27)
InitCancel ==
    /\ mainPc = "loop_top"
    /\ fleet \in Fleets
    /\ thr = <<>>
    /\ results = <<>>
    /\ scan_i = 0
    /\ port_queue = 0
    /\ sigint_in_op = FALSE
    /\ stale_cancel_seen = FALSE

CancelOthers == <<varintVars, monitorVars, cacheVars, recordVars, extVars>>

\* display_servers: nothing to do for an empty page (lines 877-881), else
\* query_servers_concurrently starts one thread per server (lines 836-840)
display_servers ==
    /\ mainPc = "loop_top"
    /\ IF fleet = <<>>
       THEN /\ mainPc' = "prompt"
            /\ UNCHANGED <<thr, sigint_in_op>>
       ELSE /\ mainPc' = "fanout"
            /\ thr' = [i \in 1..Len(fleet) |-> NewThread(fleet[i])]
            /\ sigint_in_op' = FALSE
    /\ UNCHANGED <<fleet, results, scan_i, port_queue, stale_cancel_seen,
                   flagVars, CancelOthers>>

\* task i enters MinecraftPing.ping: the flag test of line 243
ping_entry(i) ==
    /\ i \in DOMAIN thr
    /\ thr[i].pc = "entry"
    /\ IF global_cancel_query
       THEN /\ thr' = [thr EXCEPT ![i].pc = "done", ![i].slot = "canceled"]
            /\ stale_cancel_seen' = (stale_cancel_seen \/ ~sigint_in_op)
       ELSE /\ thr' = [thr EXCEPT ![i].pc = "exchange"]
            /\ UNCHANGED stale_cancel_seen
    /\ UNCHANGED <<mainPc, fleet, results, scan_i, port_queue, sigint_in_op,
                   flagVars, CancelOthers>>

\* connect, handshake, select and the three VarInt reads of ping_java (lines
\* 350-394), or the whole of ping_bedrock (lines 424-487): no flag test
ping_exchange(i) ==
    /\ i \in DOMAIN thr
    /\ thr[i].pc = "exchange"
    /\ \E failed \in BOOLEAN, n \in 1..MaxChunks :
          thr' = IF failed
                 THEN [thr EXCEPT ![i].pc = "done", ![i].slot = "error"]
                 ELSE IF thr[i].type = SERVER_TYPE_BEDROCK
                 THEN [thr EXCEPT ![i].pc = "done", ![i].slot = "ok"]
                 ELSE [thr EXCEPT ![i].pc = "json", ![i].chunks = n]
    /\ UNCHANGED <<mainPc, fleet, results, scan_i, port_queue, sigint_in_op,
                   stale_cancel_seen, flagVars, CancelOthers>>

\* one round of the JSON read loop of ping_java (lines 397-405): the flag
\* test, then one recv
ping_json(i) ==
    /\ i \in DOMAIN thr
    /\ thr[i].pc = "json"
    /\ IF global_cancel_query
       THEN thr' = [thr EXCEPT ![i].pc = "done", ![i].slot = "canceled"]
       ELSE \E broken \in BOOLEAN :
              thr' = IF broken
                     THEN [thr EXCEPT ![i].pc = "done", ![i].slot = "error"]
                     ELSE IF thr[i].chunks = 1
                     THEN [thr EXCEPT ![i].pc = "done", ![i].slot = "ok",
                                      ![i].chunks = 0]
                     ELSE [thr EXCEPT ![i].chunks = @ - 1]
    /\ UNCHANGED <<mainPc, fleet, results, scan_i, port_queue, sigint_in_op,
                   stale_cancel_seen, flagVars, CancelOthers>>

\* _show_loading_animation leaves its loop when no thread is alive, when
\* 15 s have passed or when it sees the flag; its finally clause clears
\* the flag (line 872)
show_loading_animation ==
    /\ mainPc = "fanout"
    /\ \E timed_out \in BOOLEAN :
          \/ \A i \in DOMAIN thr : ~Alive(thr[i])
          \/ timed_out
          \/ global_cancel_query
    /\ reset_cancel
    /\ mainPc' = "join"
    /\ UNCHANGED <<fleet, thr, results, scan_i, port_queue, sigint_in_op,
                   stale_cancel_seen, CancelOthers>>

\* t.join(timeout=1) for each thread, then return results (lines 846-849):
\* a thread that is still alive leaves None in its slot
join_and_return ==
    /\ mainPc = "join"
    /\ results' = [i \in DOMAIN thr |-> thr[i].slot]
    /\ mainPc' = "prompt"
    /\ UNCHANGED <<fleet, thr, scan_i, port_queue, sigint_in_op,
                   stale_cancel_seen, flagVars, CancelOthers>>

\* the commands of the prompt that start something long, and the others
command ==
    /\ mainPc = "prompt"
    /\ \E cmd \in {"scan", "scanall", "monitor", "other"} :
          /\ mainPc' = CASE cmd = "scan" -> "scan_ports"
                         [] cmd = "scanall" -> "scan_all_ports"
                         [] cmd = "monitor" -> "monitor"
                         [] OTHER -> "loop_top"
          /\ scan_i' = IF cmd = "scan" THEN 1 ELSE 0
          /\ port_queue' = IF cmd = "scanall" THEN MaxQueuedPorts ELSE 0
    /\ sigint_in_op' = FALSE
    /\ UNCHANGED <<fleet, thr, results, stale_cancel_seen, flagVars,
                   CancelOthers>>

\* one round of the loop of scan_ports (lines 1403-1434): break on the flag,
\* else probe the port; the function returns without touching the flag
scan_ports ==
    /\ mainPc = "scan_ports"
    /\ IF global_cancel_query
       THEN /\ mainPc' = "loop_top"
            /\ scan_i' = 0
            /\ stale_cancel_seen' = (stale_cancel_seen \/ ~sigint_in_op)
       ELSE /\ scan_i' = IF scan_i = MaxScanPorts THEN 0 ELSE scan_i + 1
            /\ mainPc' = IF scan_i = MaxScanPorts THEN "loop_top"
                         ELSE "scan_ports"
            /\ UNCHANGED stale_cancel_seen
    /\ UNCHANGED <<fleet, thr, results, port_queue, sigint_in_op, flagVars,
                   CancelOthers>>

\* a worker of scan_all_ports takes a port and probes it (lines 1473-1505)
scan_all_worker ==
    /\ mainPc = "scan_all_ports"
    /\ ~global_cancel_query
    /\ port_queue > 0
    /\ port_queue' = port_queue - 1
    /\ UNCHANGED <<mainPc, fleet, thr, results, scan_i, sigint_in_op,
                   stale_cancel_seen, flagVars, CancelOthers>>

\* scan_all_ports stops waiting when the queue is empty or the flag is set
\* (line 1576), joins and clears the flag (line 1605)
scan_all_ports ==
    /\ mainPc = "scan_all_ports"
    /\ port_queue = 0 \/ global_cancel_query
    /\ stale_cancel_seen' =
          (stale_cancel_seen \/ (global_cancel_query /\ ~sigint_in_op))
    /\ reset_cancel
    /\ mainPc' = "loop_top"
    /\ port_queue' = 0
    /\ UNCHANGED <<fleet, thr, results, scan_i, sigint_in_op, CancelOthers>>

\* the sampler of a running monitor probes through MinecraftPing.ping
\* (server_monitor.py:1176-1179): a set flag gives it the canceled error
monitor_probe ==
    /\ mainPc = "monitor"
    /\ global_cancel_query
    /\ ~stale_cancel_seen
    /\ stale_cancel_seen' = TRUE
    /\ UNCHANGED <<mainPc, fleet, thr, results, scan_i, port_queue,
                   sigint_in_op, flagVars, CancelOthers>>

\* the monitor is left with q
monitor_quit ==
    /\ mainPc = "monitor"
    /\ mainPc' = "loop_top"
    /\ UNCHANGED <<fleet, thr, results, scan_i, port_queue, sigint_in_op,
                   stale_cancel_seen, flagVars, CancelOthers>>

\* Ctrl-C: sigint_handler sets the flag whatever the program is doing
PressCtrlC ==
    /\ sigint_handler
    /\ sigint_in_op' = (mainPc \in {"fanout", "join", "scan_ports",
                                    "scan_all_ports"})
    /\ thr' = IF mainPc \in {"fanout", "join"}
              THEN [i \in DOMAIN thr |->
                      IF CheckpointAhead(thr[i])
                      THEN [thr[i] EXCEPT !.in_flight_at_cancel = TRUE]
                      ELSE thr[i]]
              ELSE thr
    /\ UNCHANGED <<mainPc, fleet, results, scan_i, port_queue,
                   stale_cancel_seen, CancelOthers>>

NextCancel ==
    \/ display_servers
    \/ \E i \in DOMAIN thr : ping_entry(i)
    \/ \E i \in DOMAIN thr : ping_exchange(i)
    \/ \E i \in DOMAIN thr : ping_json(i)
    \/ show_loading_animation
    \/ join_and_return
    \/ command
    \/ scan_ports
    \/ scan_all_worker
    \/ scan_all_ports
    \/ monitor_probe
    \/ monitor_quit
    \/ PressCtrlC

(***************************************************************************)
(* C6.  Every probe that was in flight when the cancel flag was set during *)
(* a fan-out ends canceled instead of carrying its exchange on.  Stated in  *)
(* the claim's favour: only the probes with a flag test still ahead of     *)
(* them are marked (in_flight_at_cancel), and a marked probe that ends     *)
(* with an error of its own is not held against the claim, only one that   *)
(* completes its exchange with a status.                                   *)
(***************************************************************************)
C6_InFlightCanceled ==
    \A i \in DOMAIN thr :
        (thr[i].in_flight_at_cancel /\ thr[i].pc = "done")
            => thr[i].slot # "ok"

(***************************************************************************)
(* C7.  Whenever no fan-out probe and no port scan is in progress the      *)
(* cancel flag is clear, and no operation ever meets a flag that was set   *)
(* before the operation began.                                             *)
(***************************************************************************)
NoLongOperation ==
    /\ mainPc \in {"loop_top", "prompt", "monitor"}
    /\ \A i \in DOMAIN thr : ~Alive(thr[i])

C7_FlagReset ==
    /\ NoLongOperation => ~global_cancel_query
    /\ ~stale_cancel_seen

(***************************************************************************)
(* ServerRecord histories and servers.json (src/server.py: load_servers    *)
(* 662-684, save_servers 686-707, add_server 709-720, query_server         *)
(* 800-833).  A history is its items, oldest first, and whether the object  *)
(* is a collections.deque(maxlen=10) or a plain list.                      *)
(***************************************************************************)
HistoryCap == 10

\* bound of the exploration: the number of history entries ever appended
MaxAppends == 11

ServerNames == {"survival"}

NoFile == <<>>       \* servers.json does not exist

EmptyDeque == [items |-> <<>>, is_deque |-> TRUE]

LastItems(items, n) ==
    IF Len(items) <= n THEN items
    ELSE SubSeq(items, Len(items) - n + 1, Len(items))

\* deque(items, maxlen=10) keeps the newest ten
AsDeque(h) == [items |-> LastItems(h.items, HistoryCap), is_deque |-> TRUE]

\* json.dump / json.load of a history: a JSON array, read back as a list
AsList(h) == [items |-> h.items, is_deque |-> FALSE]

\* h.append(item): a full deque drops its oldest item, a list just grows
history_append(h, item) ==
    IF h.is_deque
    THEN [h EXCEPT !.items = LastItems(Append(@, item), HistoryCap)]
    ELSE [h EXCEPT !.items = Append(@, item)]

\* what save_servers writes (lines 690-696): deques are turned into lists
\* first, lists are written as they are
FileImage(srvs) ==
    [i \in DOMAIN srvs |->
        [name |-> srvs[i].name,
         reports_players |-> srvs[i].reports_players,
         query_history |-> AsList(srvs[i].query_history),
         player_history |-> AsList(srvs[i].player_history)]]

\* what save_servers leaves in memory (lines 699-702): every list becomes
\* a deque(maxlen=10)
AfterSave(srvs) ==
    [i \in DOMAIN srvs |->
        [name |-> srvs[i].name,
         reports_players |-> srvs[i].reports_players,
         query_history |-> AsDeque(srvs[i].query_history),
         player_history |-> AsDeque(srvs[i].player_history)]]

\* what load_servers leaves in memory (lines 667-676): setdefault keeps the
\* list that json.load produced, since the key is present
AfterLoad(file) ==
    IF file = NoFile THEN <<>> ELSE file

RecordsIdle ==
    /\ servers = <<>>
    /\ json_file = NoFile
    /\ appended = 0

\* first start: no servers.json, load_servers gives the empty list
InitRecords ==
    /\ servers = <<>>
    /\ json_file = NoFile
    /\ appended = 0

RecordsOthers ==
    <<varintVars, monitorVars, cacheVars, flagVars, cancelVars, extVars>>

\* add_server: fresh deques, then save_servers.  reports_players is not a
\* field of the record: it says whether the statuses of the server at that
\* address carry a players field
add_server ==
    /\ \E name \in ServerNames, reports_players \in BOOLEAN :
          /\ \A i \in DOMAIN servers : servers[i].name # name
          /\ LET added == Append(servers,
                             [name |-> name,
                              reports_players |-> reports_players,
                              query_history |-> EmptyDeque,
                              player_history |-> EmptyDeque])
             IN  /\ json_file' = FileImage(added)
                 /\ servers' = AfterSave(added)
    /\ UNCHANGED <<appended, RecordsOthers>>

\* the 's' command
save_servers ==
    /\ json_file' = FileImage(servers)
    /\ servers' = AfterSave(servers)
    /\ UNCHANGED <<appended, RecordsOthers>>

\* the program is started again: ServerManager.__init__ calls load_servers
load_servers ==
    /\ servers' = AfterLoad(json_file)
    /\ UNCHANGED <<json_file, appended, RecordsOthers>>

\* query_server of a fan-out, for the record at index i: an error result
\* appends nothing; a status appends to query_history, and to
\* player_history when it has a players field
query_server ==
    /\ appended < MaxAppends
    /\ \E i \in DOMAIN servers :
          /\ servers' =
                [servers EXCEPT
                   ![i].query_history = history_append(@, appended + 1),
                   ![i].player_history =
                        IF servers[i].reports_players
                        THEN history_append(@, appended + 1) ELSE @]
    /\ appended' = appended + 1
    /\ UNCHANGED <<json_file, RecordsOthers>>

NextRecords ==
    \/ add_server
    \/ save_servers
    \/ load_servers
    \/ query_server

(***************************************************************************)
(* C8.  In every reachable state each record's query_history and           *)
(* player_history hold at most 10 entries.                                 *)
(***************************************************************************)
C8_HistoryBound ==
    \A i \in DOMAIN servers :
        /\ Len(servers[i].query_history.items) <= HistoryCap
        /\ Len(servers[i].player_history.items) <= HistoryCap

(***************************************************************************)
(* Text functions: the parse of the Bedrock pong (src/server.py:419-487)   *)
(* and the stripping of formatting codes.  A string is the sequence of its *)
(* characters.                                                             *)
(***************************************************************************)
\* U+00B2 SUPERSCRIPT TWO: a digit for str.isdigit, no decimal for int
SUP2 == "SUP2"

DecimalValue ==
    ("0" :> 0) @@ ("1" :> 1) @@ ("2" :> 2) @@ ("3" :> 3) @@ ("4" :> 4) @@
    ("5" :> 5) @@ ("6" :> 6) @@ ("7" :> 7) @@ ("8" :> 8) @@ ("9" :> 9)

DecimalChars == DOMAIN DecimalValue

\* the characters str.isdigit accepts, among those of the model
DigitChars == DecimalChars \cup {SUP2}

\* str.isdigit: not empty, and every character is a digit
str_isdigit(s) == Len(s) > 0 /\ \A i \in 1..Len(s) : s[i] \in DigitChars

RECURSIVE decimal_value(_, _)
decimal_value(s, n) ==
    IF n = 0 THEN 0 ELSE 10 * decimal_value(s, n - 1) + DecimalValue[s[n]]

\* int(s): an optional sign and decimal digits, ValueError otherwise
py_int(s) ==
    LET signed == Len(s) > 0 /\ s[1] \in {"-", "+"}
        digits == IF signed THEN Tail(s) ELSE s
    IN  IF Len(digits) > 0 /\ \A i \in 1..Len(digits) : digits[i] \in DecimalChars
        THEN [ok |-> TRUE,
              value |-> IF signed /\ s[1] = "-"
                        THEN 0 - decimal_value(digits, Len(digits))
                        ELSE decimal_value(digits, Len(digits))]
        ELSE [ok |-> FALSE, value |-> 0]

\* str.split(';')
RECURSIVE split_from(_, _, _)
split_from(text, i, piece) ==
    IF i > Len(text) THEN <<piece>>
    ELSE IF text[i] = ";" THEN <<piece>> \o split_from(text, i + 1, <<>>)
    ELSE split_from(text, i + 1, Append(piece, text[i]))

split(text) == split_from(text, 1, <<>>)

\* ';'.join(fields)
RECURSIVE join(_)
join(fields) ==
    IF Len(fields) = 0 THEN <<>>
    ELSE IF Len(fields) = 1 THEN fields[1]
    ELSE fields[1] \o <<";">> \o join(Tail(fields))

\* server_info[n] if len(server_info) > n else ''
text_field(server_info, n) ==
    IF Len(server_info) > n THEN server_info[n + 1] ELSE <<>>

\* int(server_info[n]) if len(server_info) > n and server_info[n].isdigit()
\* else 0
numeric_field(server_info, n) ==
    IF Len(server_info) > n /\ str_isdigit(server_info[n + 1])
    THEN py_int(server_info[n + 1])
    ELSE [ok |-> TRUE, value |-> 0]

ID_UNCONNECTED_PONG == 28

\* ping_bedrock from the datagram received on: the check of the packet id,
\* the split of the body, the result dict; every exception ends in
\* _create_error_result
ping_bedrock(data) ==
    LET server_info == split(data.body)
        numbers == [n \in {4, 5, 9, 10, 11} |-> numeric_field(server_info, n)]
    IN  IF data.first # ID_UNCONNECTED_PONG
        THEN [kind |-> "error", error |-> "invalid response packet"]
        ELSE IF \E n \in DOMAIN numbers : ~numbers[n].ok
        THEN [kind |-> "error", error |-> "invalid literal for int()"]
        ELSE [kind |-> "ok",
              edition |-> text_field(server_info, 0),
              motd_line1 |-> text_field(server_info, 1),
              protocol_version |-> text_field(server_info, 2),
              version |-> text_field(server_info, 3),
              online_players |-> numbers[4].value,
              max_players |-> numbers[5].value,
              server_id |-> text_field(server_info, 6),
              submotd |-> text_field(server_info, 7),
              game_mode |-> text_field(server_info, 8),
              game_mode_numeric |-> numbers[9].value,
              port_ipv4 |-> numbers[10].value,
              port_ipv6 |-> numbers[11].value]

\* SimpleMinecraftPing.clean_mc_formatting (src/server_monitor.py:307-310)
SimpleMinecraftPing_clean_mc_formatting(text) ==
    IF text = <<>> THEN <<>> ELSE clean_from(text, 1)

\* bounds of the exploration: the fields of a pong, the length of a text
MaxFields == 13
MaxTextLen == 5

\* what a field of a pong may hold
FieldSamples == {<<>>, <<"4", "2">>, <<"x">>, <<"-", "1">>, <<SUP2>>}

\* the pong bodies: n fields that all hold the same text but one
PongFields ==
    {[i \in 1..n |-> IF i = k THEN special ELSE filler] :
        n \in 1..MaxFields, k \in 1..MaxFields,
        special \in FieldSamples, filler \in FieldSamples}

Datagrams ==
    {[kind |-> "datagram", first |-> first, body |-> join(fields)] :
        first \in {ID_UNCONNECTED_PONG, 0}, fields \in PongFields}

\* the texts: a formatting sign, a code character and another character
TextChars == {SECT, "a", "x"}
Texts == {[kind |-> "text", text |-> t] : t \in SeqsUpTo(TextChars, MaxTextLen)}

NoText == [kind |-> "none"]

TextIdle ==
    /\ tIn = NoText
    /\ tOp = "init"
    /\ tOut = NoText


InitText ==
    /\ tIn \in Datagrams \cup Texts
    /\ tOp = "init"
    /\ tOut = NoText

TextOthers ==
    <<varintVars, monitorVars, cacheVars, flagVars, cancelVars, recordVars,
      modVars, logVars, threadVars, sockVars, moreVars>>

TextApply(op, out) ==
    /\ tOp = "init"
    /\ tOp' = op
    /\ tOut' = out
    /\ UNCHANGED <<tIn, TextOthers>>

\* the pong is received and parsed
BedrockPong ==
    /\ tIn.kind = "datagram"
    /\ TextApply("ping_bedrock", ping_bedrock(tIn))

Cleaned(once, twice) == [kind |-> "cleaned", once |-> once, twice |-> twice]

\* a text is stripped, and what comes out is stripped again
CleanTwice ==
    /\ tIn.kind = "text"
    /\ TextApply("clean",
                 Cleaned(clean_mc_formatting(tIn.text),
                         clean_mc_formatting(clean_mc_formatting(tIn.text))))

CleanTwiceSimple ==
    /\ tIn.kind = "text"
    /\ TextApply("clean_simple",
                 Cleaned(SimpleMinecraftPing_clean_mc_formatting(tIn.text),
                         SimpleMinecraftPing_clean_mc_formatting(
                             SimpleMinecraftPing_clean_mc_formatting(tIn.text))))

NextText ==
    \/ BedrockPong
    \/ CleanTwice
    \/ CleanTwiceSimple

\* the fields of the pong body, as sent
SentFields == split(tIn.body)

SentText(n) == IF Len(SentFields) > n THEN SentFields[n + 1] ELSE <<>>

\* the number a field stands for: its value if it is there and is a run of
\* decimal digits, 0 if it is missing or is no number
SentNumber(n) ==
    IF /\ Len(SentFields) > n
       /\ Len(SentFields[n + 1]) > 0
       /\ \A i \in 1..Len(SentFields[n + 1]) :
              SentFields[n + 1][i] \in DecimalChars
    THEN decimal_value(SentFields[n + 1], Len(SentFields[n + 1]))
    ELSE 0

(* C14: ping_bedrock maps the ';'-separated fields of the pong body        *)
(* positionally to edition, motd_line1, protocol, version, online, max,    *)
(* server_id, submotd, game_mode, game_mode_numeric, port_ipv4, port_ipv6; *)
(* a missing field gives the empty string (0 for a numeric field) and a    *)
(* numeric field that is no number gives 0, never an error result.         *)
C14_BedrockFields ==
    (tOp = "ping_bedrock" /\ tIn.first = ID_UNCONNECTED_PONG) =>
        /\ tOut.kind = "ok"
        /\ tOut.edition = SentText(0)
        /\ tOut.motd_line1 = SentText(1)
        /\ tOut.protocol_version = SentText(2)
        /\ tOut.version = SentText(3)
        /\ tOut.online_players = SentNumber(4)
        /\ tOut.max_players = SentNumber(5)
        /\ tOut.server_id = SentText(6)
        /\ tOut.submotd = SentText(7)
        /\ tOut.game_mode = SentText(8)
        /\ tOut.game_mode_numeric = SentNumber(9)
        /\ tOut.port_ipv4 = SentNumber(10)
        /\ tOut.port_ipv6 = SentNumber(11)

(* C15: stripping the formatting codes is idempotent: for every text over  *)
(* an alphabet with the section sign and code characters, stripping the    *)
(* stripped text changes nothing.                                          *)
C15_StripIdempotent ==
    tOp \in {"clean", "clean_simple"} => tOut.twice = tOut.once

(***************************************************************************)
(* The mod cache (src/server_info.py:1758-1859): one JSON file for each    *)
(* endpoint in mods_config.  Nothing of it is kept in memory, so a fresh   *)
(* process sees what the directory holds.                                  *)
(***************************************************************************)
\* bound of the exploration: the number of calls that look for a mod list
MaxModCalls == 3

\* a host name is the sequence of its labels and separators
ModHosts == {<<"mc", ".", "example">>, <<"mc", "_", "example">>}
ModPorts == {25565}
ModServerTypes == {"java", "auto"}

Jei == [id |-> "jei", version |-> "1.0"]
Create == [id |-> "create", version |-> "0.5"]

\* what get_mods_from_server can come back with: a list, or an exception
ModLists == {<<>>, <<Jei>>, <<Jei, Create>>}
Listed(mods) == [kind |-> "list", mods |-> mods]
Refused == [kind |-> "ConnectionRefusedError"]
ModAnswers == {Listed(mods) : mods \in ModLists} \cup {Refused}

NoList == [kind |-> "no list"]
NoModCall == [made |-> FALSE]

\* host.replace('.', '_')
replace_dots(host) == [i \in 1..Len(host) |-> IF host[i] = "." THEN "_" ELSE host[i]]

\* f"{host.replace('.', '_')}_{port}.json"
fname(host, port) == <<replace_dots(host), port>>

\* the tokens of a JSON text
Punct(c) == [token |-> c]
Object(mod) == [token |-> "object", id |-> mod.id, version |-> mod.version]

\* json.dump(mods, f): the tokens of a JSON array
RECURSIVE json_items(_)
json_items(mods) ==
    IF Len(mods) = 0 THEN <<>>
    ELSE IF Len(mods) = 1 THEN <<Object(mods[1])>>
    ELSE <<Object(mods[1]), Punct(",")>> \o json_items(Tail(mods))

json_dump(mods) == <<Punct("[")>> \o json_items(mods) \o <<Punct("]")>>

\* json.load(f): the array the tokens spell, or an exception
RECURSIVE json_elements(_, _)
json_elements(tokens, i) ==
    LET mod == [id |-> tokens[i].id, version |-> tokens[i].version]
    IN  IF i > Len(tokens) \/ tokens[i].token # "object"
        THEN [ok |-> FALSE, value |-> <<>>]
        ELSE IF i + 1 = Len(tokens) /\ tokens[i + 1].token = "]"
        THEN [ok |-> TRUE, value |-> <<mod>>]
        ELSE IF i + 1 < Len(tokens) /\ tokens[i + 1].token = ","
        THEN LET rest == json_elements(tokens, i + 2)
             IN  [ok |-> rest.ok, value |-> <<mod>> \o rest.value]
        ELSE [ok |-> FALSE, value |-> <<>>]

json_load(tokens) ==
    IF Len(tokens) < 2 \/ tokens[1].token # "["
    THEN [ok |-> FALSE, value |-> <<>>]
    ELSE IF Len(tokens) = 2 /\ tokens[2].token = "]"
    THEN [ok |-> TRUE, value |-> <<>>]
    ELSE json_elements(tokens, 2)

\* load_cached_mods: the list in the file; [] if there is no file or the
\* file does not parse
load_cached_mods(host, port) ==
    LET path == fname(host, port)
    IN  IF path \in DOMAIN mods_dir /\ json_load(mods_dir[path]).ok
        THEN json_load(mods_dir[path]).value
        ELSE <<>>

\* save_mods: the directory after the write
save_mods(host, port, mods) == (fname(host, port) :> json_dump(mods)) @@ mods_dir

\* get_mod_list; answer is what get_mods_from_server does if it is called.
\* Line 1853, "if mods:", takes an empty list for no list.
get_mod_list(host, port, server_type, answer) ==
    LET mods == load_cached_mods(host, port)
    IN  IF server_type # "java"
        THEN [result |-> <<>>, raised |-> FALSE, probed |-> FALSE,
              saved |-> NoList]
        ELSE IF mods # <<>>
        THEN [result |-> mods, raised |-> FALSE, probed |-> FALSE,
              saved |-> NoList]
        ELSE IF answer = Refused
        THEN [result |-> <<>>, raised |-> TRUE, probed |-> TRUE,
              saved |-> NoList]
        ELSE [result |-> answer.mods, raised |-> FALSE, probed |-> TRUE,
              saved |-> Listed(answer.mods)]

ModsIdle ==
    /\ mods_dir = <<>>
    /\ mods_written = [e \in ModHosts \X ModPorts |-> NoList]
    /\ mod_call = NoModCall
    /\ mod_calls = 0

\* mods_config starts empty
InitMods ==
    /\ mods_dir = <<>>
    /\ mods_written = [e \in ModHosts \X ModPorts |-> NoList]
    /\ mod_call = NoModCall
    /\ mod_calls = 0

ModsOthers ==
    <<varintVars, monitorVars, cacheVars, flagVars, cancelVars, recordVars,
      textVars, logVars, threadVars, sockVars, moreVars>>

\* one call of ServerInfoInterface.get_mod_list, in this process or in a
\* later one, with a record of what it found and did
GetModList ==
    /\ mod_calls < MaxModCalls
    /\ \E host \in ModHosts, port \in ModPorts, server_type \in ModServerTypes,
          answer \in ModAnswers :
          LET g == get_mod_list(host, port, server_type, answer)
          IN  /\ mods_dir' = IF g.saved = NoList THEN mods_dir
                             ELSE save_mods(host, port, g.saved.mods)
              /\ mods_written' =
                    IF g.saved = NoList THEN mods_written
                    ELSE [mods_written EXCEPT ![<<host, port>>] = g.saved]
              /\ mod_call' = [made |-> TRUE, host |-> host, port |-> port,
                              server_type |-> server_type,
                              written |-> mods_written[<<host, port>>],
                              result |-> g.result, raised |-> g.raised,
                              probed |-> g.probed]
    /\ mod_calls' = mod_calls + 1
    /\ UNCHANGED ModsOthers

\* the user empties mods_config
ClearModsDir ==
    /\ mods_dir # <<>>
    /\ mods_dir' = <<>>
    /\ mods_written' = [e \in ModHosts \X ModPorts |-> NoList]
    /\ UNCHANGED <<mod_call, mod_calls, ModsOthers>>

NextMods ==
    \/ GetModList
    \/ ClearModsDir

(* C16: after a mod list L has been written to the mod cache for an        *)
(* endpoint, a later get_mod_list for that endpoint (Java server, in the   *)
(* same or a fresh process) returns exactly L and does no network I/O,     *)
(* for any mod list L.                                                     *)
C16_ModCachePersistent ==
    (mod_call.made /\ mod_call.server_type = "java"
        /\ mod_call.written # NoList) =>
        /\ ~mod_call.raised
        /\ mod_call.result = mod_call.written.mods
        /\ ~mod_call.probed

(***************************************************************************)
(* The retention of the monitor logs (src/server_monitor.py:201-241).      *)
(* logs_dir gives the modification time of every file of the directory.    *)
(***************************************************************************)
\* bounds of the exploration: the monitor logs in the directory and the
\* retention asked for
MaxLogFiles == 5
MaxKeep == 3

\* modification times; two files can have the same
Mtimes == {1, 2, 3}

MonitorLog(i) == [prefix |-> "monitor_", stem |-> i, suffix |-> ".log"]
ExportFile == [prefix |-> "export_", stem |-> 0, suffix |-> ".json"]

\* line 212: filename.startswith("monitor_") and filename.endswith(".log")
is_monitor_log(filename) ==
    filename.prefix = "monitor_" /\ filename.suffix = ".log"

\* the monitor logs of a directory
MonitorLogs(dir) == {f \in DOMAIN dir : is_monitor_log(f)}

\* line 222, log_files.sort(key=modified): the orders the list can have
\* after the sort, oldest first; files of the same time stay as
\* os.listdir gave them, in any order
RECURSIVE OldestFirst(_, _)
OldestFirst(dir, logs) ==
    IF logs = {} THEN {<<>>}
    ELSE LET oldest == {f \in logs : \A g \in logs : dir[f] <= dir[g]}
         IN  UNION {{<<f>> \o p : p \in OldestFirst(dir, logs \ {f})} :
                       f \in oldest}

RECURSIVE NewestFirst(_, _)
NewestFirst(dir, logs) ==
    IF logs = {} THEN {<<>>}
    ELSE LET newest == {f \in logs : \A g \in logs : dir[f] >= dir[g]}
         IN  UNION {{<<f>> \o p : p \in NewestFirst(dir, logs \ {f})} :
                       f \in newest}

sorted_newest_first(dir) == NewestFirst(dir, MonitorLogs(dir))

sorted_log_files(dir) == OldestFirst(dir, MonitorLogs(dir))

\* lines 225-237: the first len(log_files) - max_files files of the list
\* are removed one after the other; a file that os.remove refuses is left
\* and the loop goes on
cleanup_old_logs(dir, max_files, log_files, refused) ==
    LET files_to_delete == Len(log_files) - max_files
        tried == IF Len(log_files) > max_files
                 THEN SubSeq(log_files, 1, files_to_delete) ELSE <<>>
        Removed(f) == f \notin refused
        deleted == SelectSeq(tried, Removed)
        gone == {deleted[i] : i \in 1..Len(deleted)}
    IN  [dir |-> [f \in DOMAIN dir \ gone |-> dir[f]],
         deleted |-> deleted,
         failed |-> {tried[i] : i \in 1..Len(tried)} \ gone,
         deleted_count |-> Len(deleted)]

NoCleanup == [made |-> FALSE]

LogsIdle ==
    /\ logs_dir = <<>>
    /\ log_cleanup = NoCleanup

\* the directory holds some monitor logs, and maybe a file of another kind
InitLogs ==
    /\ \E n \in 0..MaxLogFiles, others \in SUBSET {ExportFile} :
          logs_dir \in [{MonitorLog(i) : i \in 1..n} \cup others -> Mtimes]
    /\ log_cleanup = NoCleanup

LogsOthers ==
    <<varintVars, monitorVars, cacheVars, flagVars, cancelVars, recordVars,
      textVars, modVars, threadVars, sockVars, moreVars>>

\* what os.remove refuses: nothing, the oldest log or the newest
Refusals(log_files) ==
    {{}} \cup {{log_files[i]} : i \in {1, Len(log_files)} \cap DOMAIN log_files}

\* one run of MonitorLogger.cleanup_old_logs(max_files)
CleanupOldLogs ==
    /\ ~log_cleanup.made
    /\ \E max_files \in 0..MaxKeep, log_files \in sorted_log_files(logs_dir) :
       \E refused \in Refusals(log_files) :
          LET c == cleanup_old_logs(logs_dir, max_files, log_files, refused)
          IN  /\ logs_dir' = c.dir
              /\ log_cleanup' = [made |-> TRUE, max_files |-> max_files,
                                 before |-> logs_dir,
                                 deleted |-> c.deleted,
                                 failed |-> c.failed,
                                 deleted_count |-> c.deleted_count]
    /\ UNCHANGED LogsOthers

NextLogs == CleanupOldLogs

\* the monitor logs before the last cleanup and after it
LogsBefore == MonitorLogs(log_cleanup.before)
LogsAfter == MonitorLogs(logs_dir)

\* exactly min(n, k) monitor logs remain, none of them older than a deleted
\* one; the deleted ones went oldest first; no other file was touched
Retention ==
    /\ Cardinality(LogsAfter) =
          Min(Cardinality(LogsBefore), log_cleanup.max_files)
    /\ LogsAfter \subseteq LogsBefore
    /\ \A f \in LogsAfter, g \in LogsBefore \ LogsAfter :
          log_cleanup.before[f] >= log_cleanup.before[g]
    /\ Len(log_cleanup.deleted) = Cardinality(LogsBefore \ LogsAfter)
    /\ \A i \in 1..(Len(log_cleanup.deleted) - 1) :
          log_cleanup.before[log_cleanup.deleted[i]]
              <= log_cleanup.before[log_cleanup.deleted[i + 1]]
    /\ \A f \in DOMAIN log_cleanup.before :
          ~is_monitor_log(f) =>
              f \in DOMAIN logs_dir /\ logs_dir[f] = log_cleanup.before[f]

MaxEvents == 4
MaxPagerProbes == 2

\* a MonitorEvent: n tells the events apart, as the timestamp does
MonitorEvent(event_type, by, n) == [type |-> event_type, by |-> by, n |-> n]

NoHeld == <<>>

\* queue.Queue.get_nowait on a queue that is not empty
queue_get_last(q) == [event |-> q[Len(q)], rest |-> SubSeq(q, 1, Len(q) - 1)]

queue_get(q) == [event |-> Head(q), rest |-> Tail(q)]

\* lines 1463-1467 of show_full_log: the display is paused, the monitoring
\* is not stopped
show_full_log_stopping == [pause_display |-> TRUE, monitor_active |-> FALSE]

show_full_log_open == [pause_display |-> TRUE, monitor_active |-> monitor_active]

\* add_event: the event is put on the queue (line 1242)
add_event(event_type, by) ==
    LET event == MonitorEvent(event_type, by, Len(enqueued) + 1)
    IN  /\ event_queue' = Append(event_queue, event)
        /\ enqueued' = Append(enqueued, event)

ThreadsIdle ==
    /\ is_running = FALSE
    /\ monitor_active = FALSE
    /\ pause_display = FALSE
    /\ uiPc = "none"
    /\ samplerPc = "none"
    /\ held = NoHeld
    /\ enqueued = <<>>
    /\ pager_probes = 0

\* ServerMonitor.__init__ (lines 1088-1118): the "monitoring started" event
\* is on the queue, no thread runs
InitThreads ==
    /\ is_running = FALSE
    /\ monitor_active = FALSE
    /\ pause_display = FALSE
    /\ uiPc = "made"
    /\ samplerPc = "none"
    /\ held = NoHeld
    /\ enqueued = <<MonitorEvent("info", "ui", 1)>>
    /\ pager_probes = 0
    /\ event_queue = <<MonitorEvent("info", "ui", 1)>>
    /\ all_events = <<>>
    /\ mType = "java"
    /\ last_result = NoResult
    /\ last_players = {}
    /\ last_player_count = -1
    /\ mProbes = <<>>
    /\ m_server = FreshServer

ThreadsOthers ==
    <<mType, last_result, last_players, last_player_count, mProbes, m_server,
      varintVars, cacheVars, flagVars, cancelVars, recordVars,
      textVars, modVars, logVars, sockVars, moreVars>>

\* ---- the UI thread ----
\* start, lines 1126-1131: the flags are set and the sampler thread started
Start ==
    /\ uiPc = "made"
    /\ is_running' = TRUE
    /\ monitor_active' = TRUE
    /\ samplerPc' = "top"
    /\ uiPc' = "loop"
    /\ UNCHANGED <<pause_display, held, enqueued, pager_probes, event_queue,
                   all_events, ThreadsOthers>>

\* _handle_key for '+', '-' and 't': one add_event
KeyEvent ==
    /\ uiPc = "loop"
    /\ Len(enqueued) < MaxEvents
    /\ add_event("info", "ui")
    /\ UNCHANGED <<is_running, monitor_active, pause_display, uiPc, samplerPc,
                   held, pager_probes, all_events, ThreadsOthers>>

\* _handle_key for 'r': add_event, then check_server_status in this thread
KeyRefresh ==
    /\ uiPc = "loop"
    /\ Len(enqueued) < MaxEvents
    /\ add_event("info", "ui")
    /\ uiPc' = "check"
    /\ UNCHANGED <<is_running, monitor_active, pause_display, samplerPc,
                   held, pager_probes, all_events, ThreadsOthers>>

\* an add_event of the check_server_status the UI thread runs
UiCheckEvent ==
    /\ uiPc = "check"
    /\ Len(enqueued) < MaxEvents
    /\ add_event("status_change", "ui")
    /\ UNCHANGED <<is_running, monitor_active, pause_display, uiPc, samplerPc,
                   held, pager_probes, all_events, ThreadsOthers>>

UiCheckDone ==
    /\ uiPc = "check"
    /\ uiPc' = "loop"
    /\ UNCHANGED <<is_running, monitor_active, pause_display, samplerPc,
                   held, enqueued, pager_probes, event_queue, all_events,
                   ThreadsOthers>>

\* _handle_key for 'l', show_full_log up to viewer.start()
OpenPager ==
    /\ uiPc = "loop"
    /\ pause_display' = show_full_log_open.pause_display
    /\ monitor_active' = show_full_log_open.monitor_active
    /\ uiPc' = "pager"
    /\ pager_probes' = 0
    /\ UNCHANGED <<is_running, samplerPc, held, enqueued, event_queue,
                   all_events, ThreadsOthers>>

\* 'q' in the log viewer: viewer.start() returns, line 1474
ClosePager ==
    /\ uiPc = "pager"
    /\ pause_display' = FALSE
    /\ uiPc' = "loop"
    /\ UNCHANGED <<is_running, monitor_active, samplerPc, held, enqueued,
                   pager_probes, event_queue, all_events, ThreadsOthers>>

\* KeyboardInterrupt in the loop of start or below it: the handler of line
\* 1143 is entered; what show_full_log had set stays
Interrupt ==
    /\ uiPc \in {"loop", "check", "pager"}
    /\ uiPc' = "stopping"
    /\ UNCHANGED <<is_running, monitor_active, pause_display, samplerPc,
                   held, enqueued, pager_probes, event_queue, all_events,
                   ThreadsOthers>>

\* 'q' in the monitor: wait_for_input returns False, the loop is left
KeyQuit ==
    /\ uiPc = "loop"
    /\ uiPc' = "stopping"
    /\ UNCHANGED <<is_running, monitor_active, pause_display, samplerPc,
                   held, enqueued, pager_probes, event_queue, all_events,
                   ThreadsOthers>>

\* stop (lines 1541-1550); the join gives up after two seconds, so the
\* sampler may still be running when the last event is added
Stop ==
    /\ uiPc = "stopping"
    /\ is_running' = FALSE
    /\ monitor_active' = FALSE
    /\ add_event("info", "ui")
    /\ uiPc' = "stopped"
    /\ UNCHANGED <<pause_display, samplerPc, held, pager_probes, all_events,
                   ThreadsOthers>>

\* ---- the sampler thread ----
\* line 1156: while self.monitor_active
SamplerTop ==
    /\ samplerPc = "top"
    /\ samplerPc' = IF monitor_active THEN "drain" ELSE "exit"
    /\ UNCHANGED <<is_running, monitor_active, pause_display, uiPc, held,
                   enqueued, pager_probes, event_queue, all_events,
                   ThreadsOthers>>

\* _process_event_queue, line 1258: get_nowait takes an event or raises
\* queue.Empty, which ends the drain
DrainGet ==
    /\ samplerPc = "drain"
    /\ IF event_queue # <<>>
       THEN /\ held' = <<queue_get(event_queue).event>>
            /\ event_queue' = queue_get(event_queue).rest
            /\ samplerPc' = "append"
       ELSE /\ samplerPc' = "probe"
            /\ UNCHANGED <<held, event_queue>>
    /\ UNCHANGED <<is_running, monitor_active, pause_display, uiPc, enqueued,
                   pager_probes, all_events, ThreadsOthers>>

\* lines 1259-1260: the event taken is appended under the lock
DrainAppend ==
    /\ samplerPc = "append"
    /\ all_events' = Append(all_events, held[1])
    /\ held' = NoHeld
    /\ samplerPc' = "drain"
    /\ UNCHANGED <<is_running, monitor_active, pause_display, uiPc, enqueued,
                   pager_probes, event_queue, ThreadsOthers>>

\* check_server_status, lines 1175-1178: the probe
SamplerProbe ==
    /\ samplerPc = "probe"
    /\ samplerPc' = "check"
    /\ pager_probes' = IF uiPc = "pager"
                       THEN Min(pager_probes + 1, MaxPagerProbes)
                       ELSE pager_probes
    /\ UNCHANGED <<is_running, monitor_active, pause_display, uiPc, held,
                   enqueued, event_queue, all_events, ThreadsOthers>>

\* an add_event of check_server_status
SamplerCheckEvent ==
    /\ samplerPc = "check"
    /\ Len(enqueued) < MaxEvents
    /\ add_event("status_change", "sampler")
    /\ UNCHANGED <<is_running, monitor_active, pause_display, uiPc, samplerPc,
                   held, pager_probes, all_events, ThreadsOthers>>

\* line 1164: time.sleep(self.refresh_interval), then the loop starts over
SamplerSleep ==
    /\ samplerPc = "check"
    /\ samplerPc' = "top"
    /\ UNCHANGED <<is_running, monitor_active, pause_display, uiPc, held,
                   enqueued, pager_probes, event_queue, all_events,
                   ThreadsOthers>>

SamplerStep ==
    \/ SamplerTop
    \/ DrainGet
    \/ DrainAppend
    \/ SamplerProbe
    \/ SamplerCheckEvent
    \/ SamplerSleep

NextThreads ==
    \/ Start
    \/ KeyEvent
    \/ KeyRefresh
    \/ UiCheckEvent
    \/ UiCheckDone
    \/ OpenPager
    \/ ClosePager
    \/ Interrupt
    \/ KeyQuit
    \/ Stop
    \/ SamplerTop
    \/ DrainGet
    \/ DrainAppend
    \/ SamplerProbe
    \/ SamplerCheckEvent
    \/ SamplerSleep

(* C18: for one ServerMonitor the events are in all_events in exactly the  *)
(* order in which add_event enqueued them: what has been moved to the      *)
(* list, then the event in the drainer's hand, then what waits on the      *)
(* queue is the sequence of the add_event calls, so that nothing is lost,  *)
(* doubled or out of order, also when both threads call add_event.         *)
C18_EnqueueOrder == all_events \o held \o event_queue = enqueued

\* events of both threads have been moved to the list, a sampler event
\* between two UI events
C18_Witness ==
    /\ Len(all_events) = MaxEvents
    /\ all_events[2].by = "sampler"
    /\ all_events[3].by = "ui"
    /\ all_events = enqueued

\* the fields of the monitor other than pause_display
SamplingState ==
    <<is_running, monitor_active, samplerPc, held, event_queue, all_events,
      enqueued>>

(* C19: the sampler never stops during pager mode: while the log viewer    *)
(* is open monitor_active stays true, and the sampler thread has not left  *)
(* its loop and can take its next step; opening and closing the viewer     *)
(* changes only pause_display; and no step of the running sampler thread  *)
(* enters or leaves pager mode.                                            *)
C19_SamplerRunsInPager ==
    /\ [](uiPc = "pager" =>
            /\ monitor_active
            /\ pause_display
            /\ samplerPc \notin {"none", "exit"}
            /\ ENABLED SamplerStep)
    /\ [][((uiPc = "loop" /\ uiPc' = "pager") \/ (uiPc = "pager" /\ uiPc' = "loop"))
            => /\ UNCHANGED SamplingState
               /\ pause_display' = (uiPc' = "pager")]_vars
    /\ [][(samplerPc # "none" /\ samplerPc' # samplerPc)
            => UNCHANGED <<uiPc, pause_display>>]_vars

\* the sampler has probed twice while the log viewer was open
C19_Witness ==
    /\ uiPc = "pager"
    /\ pager_probes = MaxPagerProbes
    /\ monitor_active
    /\ samplerPc = "check"

(***************************************************************************)
(* The sockets of the probes: MinecraftPing.ping_java and ping_bedrock     *)
(* (src/server.py:343-487) and get_mods_from_server                        *)
(* (src/forge_login_client.py:308-330), one statement group at a step.     *)
(* sock tells whether the socket of the running probe exists and whether   *)
(* close has been called on it.                                            *)
(***************************************************************************)
\* bound of the exploration: the probes run one after the other, and the
\* pieces in which the JSON of a status arrives
MaxProbeRuns == 2
MaxJsonChunks == 2

ProbeFns == {"ping_java", "ping_bedrock", "get_mods_from_server"}

SocketsIdle ==
    /\ probe_fn = "none"
    /\ probePc = "idle"
    /\ sock = "none"
    /\ exit_path = "none"
    /\ chunks_left = 0
    /\ probe_runs = 0

InitSockets ==
    /\ probe_fn = "none"
    /\ probePc = "idle"
    /\ sock = "none"
    /\ exit_path = "none"
    /\ chunks_left = 0
    /\ probe_runs = 0
    /\ global_cancel_query \in BOOLEAN

SocketsOthers ==
    <<varintVars, monitorVars, cacheVars, flagVars, cancelVars, recordVars,
      textVars, modVars, logVars, threadVars, moreVars>>

\* a statement goes on to the next one
Goes(pc) ==
    /\ probePc' = pc
    /\ UNCHANGED <<probe_fn, sock, exit_path, chunks_left, probe_runs,
                   SocketsOthers>>

\* a statement raises: ping_java and ping_bedrock go to their
\* "except Exception" (lines 416, 486)
Raises(path) ==
    /\ probePc' = "except"
    /\ exit_path' = path
    /\ UNCHANGED <<probe_fn, sock, chunks_left, probe_runs, SocketsOthers>>

\* a probe function is called
StartProbe ==
    /\ probePc \in {"idle", "returned"}
    /\ probe_runs < MaxProbeRuns
    /\ \E fn \in ProbeFns, chunks \in 1..MaxJsonChunks :
          /\ probe_fn' = fn
          /\ chunks_left' = IF fn = "ping_java" THEN chunks ELSE 0
    /\ probePc' = "socket"
    /\ sock' = "none"
    /\ exit_path' = "none"
    /\ probe_runs' = probe_runs + 1
    /\ UNCHANGED SocketsOthers

\* ---- ping_java ----
\* line 356: sock = socket.socket(...)
JavaSocket ==
    /\ probe_fn = "ping_java" /\ probePc = "socket"
    /\ sock' = "open"
    /\ probePc' = "connect"
    /\ UNCHANGED <<probe_fn, exit_path, chunks_left, probe_runs, SocketsOthers>>

\* lines 360-378: sock.connect, then the two sendall
JavaConnect ==
    /\ probe_fn = "ping_java" /\ probePc = "connect"
    /\ Goes("select") \/ Raises("connect failure")

\* lines 380-382: select, "response timeout" if nothing is readable
JavaSelect ==
    /\ probe_fn = "ping_java" /\ probePc = "select"
    /\ Goes("resp_length") \/ Raises("response timeout")

\* lines 384-386: the length of the response
JavaRespLength ==
    /\ probe_fn = "ping_java" /\ probePc = "resp_length"
    /\ Goes("resp_id") \/ Raises("bad length") \/ Raises("receive timeout")

\* lines 388-390: the packet id
JavaRespId ==
    /\ probe_fn = "ping_java" /\ probePc = "resp_id"
    /\ Goes("json_length") \/ Raises("bad id")

\* lines 392-394: the length of the JSON
JavaJsonLength ==
    /\ probe_fn = "ping_java" /\ probePc = "json_length"
    /\ Goes("recv") \/ Raises("bad length")

\* lines 398-400: the flag is set, the socket is closed and the probe
\* returns
JavaCancel ==
    /\ probe_fn = "ping_java" /\ probePc = "recv"
    /\ chunks_left > 0
    /\ global_cancel_query
    /\ sock' = "closed"
    /\ exit_path' = "cancel"
    /\ probePc' = "returned"
    /\ UNCHANGED <<probe_fn, chunks_left, probe_runs, SocketsOthers>>

\* lines 402-405: a piece of the JSON is received
JavaRecv ==
    /\ probe_fn = "ping_java" /\ probePc = "recv"
    /\ chunks_left > 0
    /\ ~global_cancel_query
    /\ \/ /\ chunks_left' = chunks_left - 1
          /\ UNCHANGED <<probe_fn, probePc, sock, exit_path, probe_runs,
                         SocketsOthers>>
       \/ Raises("connection lost")
       \/ Raises("receive timeout")

\* line 407: sock.close() after the loop
JavaClose ==
    /\ probe_fn = "ping_java" /\ probePc = "recv"
    /\ chunks_left = 0
    /\ sock' = "closed"
    /\ probePc' = "decode"
    /\ UNCHANGED <<probe_fn, exit_path, chunks_left, probe_runs, SocketsOthers>>

\* lines 409-415: json.loads and the return of the result
JavaDecode ==
    /\ probe_fn = "ping_java" /\ probePc = "decode"
    /\ \/ /\ probePc' = "returned"
          /\ exit_path' = "success"
          /\ UNCHANGED <<probe_fn, sock, chunks_left, probe_runs,
                         SocketsOthers>>
       \/ Raises("JSON decode failure")

\* lines 416-417: return _create_error_result(str(e), ...)
JavaExcept ==
    /\ probe_fn = "ping_java" /\ probePc = "except"
    /\ Goes("returned")

\* ---- ping_bedrock ----
\* line 430: sock = socket.socket(...)
BedrockSocket ==
    /\ probe_fn = "ping_bedrock" /\ probePc = "socket"
    /\ sock' = "open"
    /\ probePc' = "recvfrom"
    /\ UNCHANGED <<probe_fn, exit_path, chunks_left, probe_runs, SocketsOthers>>

\* lines 440-442: sendto, recvfrom, sock.close()
BedrockRecvfrom ==
    /\ probe_fn = "ping_bedrock" /\ probePc = "recvfrom"
    /\ \/ /\ sock' = "closed"
          /\ probePc' = "parse"
          /\ UNCHANGED <<probe_fn, exit_path, chunks_left, probe_runs,
                         SocketsOthers>>
       \/ Raises("receive timeout")

\* lines 446-485: the check of the packet id, the parse, the return
BedrockParse ==
    /\ probe_fn = "ping_bedrock" /\ probePc = "parse"
    /\ \/ /\ probePc' = "returned"
          /\ exit_path' = "success"
          /\ UNCHANGED <<probe_fn, sock, chunks_left, probe_runs,
                         SocketsOthers>>
       \/ Raises("bad id")

\* lines 486-487
BedrockExcept ==
    /\ probe_fn = "ping_bedrock" /\ probePc = "except"
    /\ Goes("returned")

\* ---- get_mods_from_server ----
\* ForgeLoginClient.connect (lines 89-94): the socket is made, then
\* connected
ModsConnect ==
    /\ probe_fn = "get_mods_from_server" /\ probePc = "socket"
    /\ sock' = "open"
    /\ \/ probePc' = "handshake" /\ exit_path' = exit_path
       \/ probePc' = "finally" /\ exit_path' = "connect failure"
    /\ UNCHANGED <<probe_fn, chunks_left, probe_runs, SocketsOthers>>

\* lines 315-326: the handshake, the login start, the mod list
ModsHandshake ==
    /\ probe_fn = "get_mods_from_server" /\ probePc = "handshake"
    /\ probePc' = "finally"
    /\ exit_path' \in {"success", "receive timeout"}
    /\ UNCHANGED <<probe_fn, sock, chunks_left, probe_runs, SocketsOthers>>

\* lines 327-328 and ForgeLoginClient.close: finally client.close()
ModsFinally ==
    /\ probe_fn = "get_mods_from_server" /\ probePc = "finally"
    /\ sock' = IF sock = "open" THEN "closed" ELSE sock
    /\ probePc' = "returned"
    /\ UNCHANGED <<probe_fn, exit_path, chunks_left, probe_runs, SocketsOthers>>

NextSockets ==
    \/ StartProbe
    \/ JavaSocket
    \/ JavaConnect
    \/ JavaSelect
    \/ JavaRespLength
    \/ JavaRespId
    \/ JavaJsonLength
    \/ JavaCancel
    \/ JavaRecv
    \/ JavaClose
    \/ JavaDecode
    \/ JavaExcept
    \/ BedrockSocket
    \/ BedrockRecvfrom
    \/ BedrockParse
    \/ BedrockExcept
    \/ ModsConnect
    \/ ModsHandshake
    \/ ModsFinally
    \/ CtrlC
    \/ CancelReset

(* C20: every socket a probe opened is closed before the probe function    *)
(* returns, on every exit path (success, error, cancel), for ping_java,    *)
(* ping_bedrock and get_mods_from_server.                                  *)
C20_SocketsClosed == probePc = "returned" => sock # "open"

(***************************************************************************)
(* The scan of the common ports (server.py, scan_ports).  Each round       *)
(* probes one port of the list with ping, Java first and Bedrock if Java   *)
(* gave an error.                                                          *)
(***************************************************************************)
\* line 1389
common_ports ==
    <<25565, 19132, 25566, 25567, 25568, 25569, 25570, 19133, 19134, 19135>>

\* the host that is scanned and the endpoints on which a server may be up
ScanHost == "play.example"
Endpoints ==
    {<<"play.example", 25565, SERVER_TYPE_JAVA>>,
     <<"play.example", 25565, SERVER_TYPE_BEDROCK>>,
     <<"play.example", 19132, SERVER_TYPE_BEDROCK>>,
     <<"node.example", 25570, SERVER_TYPE_JAVA>>}

UpAnswer == [error |-> "", query_time |-> 12]
DownAnswer == [error |-> "timed out", query_time |-> 0]

\* what the probe of an endpoint comes back with
answer_of(endpoint) == IF endpoint \in listening THEN UpAnswer ELSE DownAnswer

\* lines 1419 and 1429: ping(host, port, use_cache=False, server_type=...);
\* the probe goes to the endpoint that ping resolves
scan_ping(host, port, server_type) ==
    LET key == cache_key(host, port, server_type)
        answer == answer_of(key)
        retry == answer_of(<<host, port, server_type>>)
    IN  ping(host, port, FALSE, server_type, answer, retry)

ScanIdle ==
    /\ listening = {}
    /\ scanPc = "idle"
    /\ scan_port = 1
    /\ found_servers = <<>>
    /\ scan_probes = <<>>

InitScan ==
    /\ listening \in SUBSET Endpoints
    /\ scanPc = "idle"
    /\ scan_port = 1
    /\ found_servers = <<>>
    /\ scan_probes = <<>>

ScanOthers ==
    <<varintVars, monitorVars, cancelVars, recordVars, textVars, modVars,
      logVars, threadVars, sockVars, fanVars, keyVars, sweepVars, laterVars>>

\* lines 1385-1401: the call
ScanStart ==
    /\ scanPc = "idle"
    /\ scanPc' = "java"
    /\ UNCHANGED <<listening, scan_port, found_servers, scan_probes,
                   cacheVars, flagVars, ScanOthers>>

\* what follows a round: the next port or the end of the loop
ScanAdvance ==
    IF scan_port = Len(common_ports)
    THEN scanPc' = "returned" /\ UNCHANGED scan_port
    ELSE scanPc' = "java" /\ scan_port' = scan_port + 1

\* lines 1403-1427: the top of a round and the Java probe.  The break on the
\* flag of the first round leaves bar_length unassigned, and line 1438
\* reads it.
ScanJava ==
    /\ scanPc = "java"
    /\ IF global_cancel_query
       THEN /\ scanPc' = IF scan_port = 1 THEN "raised" ELSE "returned"
            /\ UNCHANGED <<scan_port, found_servers, scan_probes, cache,
                           srv_cache>>
       ELSE LET port == common_ports[scan_port]
                p == scan_ping(ScanHost, port, SERVER_TYPE_JAVA)
            IN  /\ cache' = p.cache
                /\ srv_cache' = p.srv_cache
                /\ scan_probes' = scan_probes \o p.probed
                /\ IF p.result.error = ""
                   THEN /\ found_servers' =
                              Append(found_servers,
                                     [port |-> port, type |-> "java"])
                        /\ ScanAdvance
                   ELSE /\ scanPc' = "bedrock"
                        /\ UNCHANGED <<scan_port, found_servers>>
    /\ UNCHANGED <<listening, now, dns, srv_answer, call, pings, flagVars,
                   ScanOthers>>

\* lines 1429-1435: the Bedrock probe of the round
ScanBedrock ==
    /\ scanPc = "bedrock"
    /\ LET port == common_ports[scan_port]
           p == scan_ping(ScanHost, port, SERVER_TYPE_BEDROCK)
       IN  /\ cache' = p.cache
           /\ srv_cache' = p.srv_cache
           /\ scan_probes' = scan_probes \o p.probed
           /\ found_servers' =
                 IF p.result.error = ""
                 THEN Append(found_servers, [port |-> port, type |-> "bedrock"])
                 ELSE found_servers
           /\ ScanAdvance
    /\ UNCHANGED <<listening, now, dns, srv_answer, call, pings, flagVars,
                   ScanOthers>>

NextScan ==
    \/ ScanStart
    \/ ScanJava
    \/ ScanBedrock
    \/ CtrlC

\* a server answers on this port of the scanned host
Answers(port, server_type) == <<ScanHost, port, server_type>> \in listening

FoundPorts == {found_servers[j].port : j \in 1..Len(found_servers)}

(* C23: scan_ports(host) returns at most one entry per port of the common  *)
(* list; a port is in the returned list exactly when a server answered on  *)
(* that port of the host, with kind java if the Java probe succeeded and   *)
(* otherwise bedrock.                                                      *)
C23_CommonPortScan ==
    (scanPc = "returned" /\ ~global_cancel_query) =>
        /\ Cardinality(FoundPorts) = Len(found_servers)
        /\ \A i \in 1..Len(common_ports) :
               common_ports[i] \in FoundPorts
               <=> \E t \in ServerTypes : Answers(common_ports[i], t)
        /\ \A j \in 1..Len(found_servers) :
               found_servers[j].type =
                   IF Answers(found_servers[j].port, SERVER_TYPE_JAVA)
                   THEN "java" ELSE "bedrock"

(***************************************************************************)
(* The fan-out of probes (server.py, query_servers_concurrently).  The     *)
(* records are Python dicts: an object is named by its position in         *)
(* self.servers, and the list passed to the function holds objects.  Each  *)
(* task probes its record, looks the record up in self.servers with        *)
(* list.index, which goes by equality, and writes to the record found.     *)
(***************************************************************************)
MaxFleet == 2

FanNames == {"lobby", "survival"}

NoTask == [pc |-> "none", server_index |-> 0]
NoProbeResult == [token |-> "None"]

\* a record as the manager holds it (lines 709-717)
FanRecord(name) ==
    [name |-> name, ip |-> "play.example", port |-> 25565,
     type |-> SERVER_TYPE_JAVA, last_query |-> 0, query_history |-> <<>>]

\* the lists handed to the function: the records in the order held or in
\* the reverse order (display_servers passes a sorted list)
Reverse(seq) == [i \in 1..Len(seq) |-> seq[Len(seq) + 1 - i]]
PassedLists == {[i \in 1..MaxFleet |-> i], Reverse([i \in 1..MaxFleet |-> i])}

\* list.index(x): the first position whose element is x or equals x
list_index(list, obj) ==
    CHOOSE k \in 1..Len(list) :
        /\ k = obj \/ list[k] = list[obj]
        /\ \A j \in 1..(k - 1) : ~(j = obj \/ list[j] = list[obj])

FanIdle ==
    /\ fan_servers = <<>>
    /\ fan_passed = <<>>
    /\ fan_results = <<>>
    /\ fan_task = <<>>
    /\ fan_clock = 0
    /\ fan_writes = {}

\* lines 797-798 and 836-840: results = [None] * len(servers), one thread
\* per entry
InitFan ==
    /\ fan_servers \in [1..MaxFleet -> {FanRecord(n) : n \in FanNames}]
    /\ fan_passed \in PassedLists
    /\ fan_results = [i \in 1..MaxFleet |-> NoProbeResult]
    /\ fan_task = [i \in 1..MaxFleet |-> [pc |-> "ping", server_index |-> 0]]
    /\ fan_clock = 0
    /\ fan_writes = {}

FanOthers ==
    <<varintVars, monitorVars, cancelVars, recordVars, textVars, modVars,
      logVars, threadVars, sockVars, scanVars, keyVars, sweepVars, laterVars>>

\* line 804: results[idx] = MinecraftPing.ping(server['ip'], port, ...)
TaskPing(idx) ==
    /\ fan_task[idx].pc = "ping"
    /\ \E answer \in ProbeAnswers :
          LET server == fan_servers[fan_passed[idx]]
              p == ping(server.ip, server.port, TRUE, server.type, answer,
                        answer)
          IN  /\ fan_results' =
                    [fan_results EXCEPT
                       ![idx] = [of |-> fan_passed[idx], result |-> p.result]]
              /\ cache' = p.cache
              /\ srv_cache' = p.srv_cache
    /\ fan_task' = [fan_task EXCEPT ![idx].pc = "index"]
    /\ UNCHANGED <<fan_servers, fan_passed, fan_clock, fan_writes, now, dns,
                   srv_answer, call, pings, flagVars, FanOthers>>

\* line 807: server_index = self.servers.index(server)
TaskIndex(idx) ==
    /\ fan_task[idx].pc = "index"
    /\ fan_task' =
          [fan_task EXCEPT
             ![idx] = [pc |-> "stamp",
                       server_index |->
                           list_index(fan_servers, fan_passed[idx])]]
    /\ UNCHANGED <<fan_servers, fan_passed, fan_results, fan_clock,
                   fan_writes, cacheVars, flagVars, FanOthers>>

\* line 808: self.servers[server_index]['last_query'] = time.time()
TaskStamp(idx) ==
    /\ fan_task[idx].pc = "stamp"
    /\ fan_clock' = fan_clock + 1
    /\ fan_servers' =
          [fan_servers EXCEPT
             ![fan_task[idx].server_index].last_query = fan_clock + 1]
    /\ fan_writes' = fan_writes \cup {<<idx, fan_task[idx].server_index>>}
    /\ fan_task' = [fan_task EXCEPT ![idx].pc = "history"]
    /\ UNCHANGED <<fan_passed, fan_results, cacheVars, flagVars, FanOthers>>

\* lines 810-829: on a result without error, the appends to query_history
\* (and, in the same way and to the same self.servers[server_index], to
\* player_history and mod_list)
TaskHistory(idx) ==
    /\ fan_task[idx].pc = "history"
    /\ IF fan_results[idx].result.error = ""
       THEN /\ fan_clock' = fan_clock + 1
            /\ fan_servers' =
                  [fan_servers EXCEPT
                     ![fan_task[idx].server_index].query_history =
                         Append(@, [timestamp |-> fan_clock + 1,
                                    query_time |->
                                        fan_results[idx].result.query_time])]
            /\ fan_writes' =
                  fan_writes \cup {<<idx, fan_task[idx].server_index>>}
       ELSE UNCHANGED <<fan_clock, fan_servers, fan_writes>>
    /\ fan_task' = [fan_task EXCEPT ![idx].pc = "done"]
    /\ UNCHANGED <<fan_passed, fan_results, cacheVars, flagVars, FanOthers>>

\* the tasks, one per entry of the list (lines 800-833)
fan_query_server ==
    \E idx \in 1..MaxFleet :
        \/ TaskPing(idx)
        \/ TaskIndex(idx)
        \/ TaskStamp(idx)
        \/ TaskHistory(idx)

NextFan == fan_query_server

(* C24: task i writes only results[i], results[i] is the probe result of   *)
(* servers[i], and the record updates of task i are applied to that same   *)
(* record servers[i] and to no other record, for every server list         *)
(* (records with equal field values included) and every interleaving.      *)
C24_FanOutOwnRecord ==
    /\ \A i \in DOMAIN fan_results :
          fan_results[i] # NoProbeResult
          => /\ fan_task[i].pc # "ping"
             /\ fan_results[i].of = fan_passed[i]
    /\ \A w \in fan_writes : w[2] = fan_passed[w[1]]

(***************************************************************************)
(* The '+' and '-' keys of the monitors (server_monitor.py, _handle_key of *)
(* ServerMonitor and of MultiServerMonitor).                               *)
(***************************************************************************)
MaxChildren == 2

\* lines 1093 and 1570
InitialInterval == 30
\* lines 1518 and 1756
MaxInterval == 300
\* lines 1522 and 1762
MinInterval == 5
IntervalStep == 5

py_min(a, b) == IF a < b THEN a ELSE b
py_max(a, b) == IF a > b THEN a ELSE b

\* the subtraction without the lower bound
minus_unclamped(interval) == interval - IntervalStep

\* lines 1518, 1756: min(300, self.refresh_interval + 5)
interval_plus(interval) == py_min(MaxInterval, interval + IntervalStep)

\* lines 1522, 1762: max(5, self.refresh_interval - 5)
interval_minus(interval) == py_max(MinInterval, interval - IntervalStep)

Keys == {"+", "-", "t"}

handle_interval(key, interval) ==
    IF key = "+" THEN interval_plus(interval)
    ELSE IF key = "-" THEN interval_minus(interval)
    ELSE interval

NoKey == [key |-> "none", by |-> "none"]

KeysIdle ==
    /\ refresh_interval = InitialInterval
    /\ multi_refresh_interval = InitialInterval
    /\ child_refresh_interval = <<>>
    /\ key_event = <<>>
    /\ last_key = NoKey

\* ServerMonitor.__init__ (line 1093) and MultiServerMonitor.__init__ (lines
\* 1570 and 1576-1579)
InitKeys ==
    /\ refresh_interval = InitialInterval
    /\ multi_refresh_interval = InitialInterval
    /\ child_refresh_interval = [m \in 1..MaxChildren |-> InitialInterval]
    /\ key_event = [m \in 0..MaxChildren |-> InitialInterval]
    /\ last_key = NoKey

KeysOthers ==
    <<varintVars, monitorVars, cacheVars, flagVars, cancelVars, recordVars,
      textVars, modVars, logVars, threadVars, sockVars, scanVars, fanVars,
      sweepVars, laterVars>>

\* ServerMonitor._handle_key (lines 1513-1539): '+' and '-' set the interval
\* and add the event that announces it; 't' stands for the keys that leave
\* the interval alone
MonitorHandleKey ==
    \E key \in Keys :
        /\ refresh_interval' = handle_interval(key, refresh_interval)
        /\ key_event' =
              IF key \in {"+", "-"}
              THEN [key_event EXCEPT
                      ![0] = handle_interval(key, refresh_interval)]
              ELSE key_event
        /\ last_key' = [key |-> key, by |-> "monitor"]
        /\ UNCHANGED <<multi_refresh_interval, child_refresh_interval,
                       KeysOthers>>

\* MultiServerMonitor._handle_key (lines 1751-1766): the new interval is
\* handed to every monitor of self.monitors, with the event
MultiHandleKey ==
    \E key \in Keys :
        LET new == handle_interval(key, multi_refresh_interval)
        IN  /\ multi_refresh_interval' = new
            /\ child_refresh_interval' =
                  IF key \in {"+", "-"}
                  THEN [m \in 1..MaxChildren |-> new]
                  ELSE child_refresh_interval
            /\ key_event' =
                  IF key \in {"+", "-"}
                  THEN [m \in 0..MaxChildren |->
                           IF m = 0 THEN key_event[0] ELSE new]
                  ELSE key_event
            /\ last_key' = [key |-> key, by |-> "multi"]
            /\ UNCHANGED <<refresh_interval, KeysOthers>>

NextKeys ==
    \/ MonitorHandleKey
    \/ MultiHandleKey

InRange(interval) == MinInterval <= interval /\ interval <= MaxInterval

\* the step a key makes: by exactly 5, or onto the bound
StepOf(key, old, new) ==
    /\ key = "+" => new = old + IntervalStep
                    \/ (new = MaxInterval /\ old + IntervalStep > MaxInterval)
    /\ key = "-" => new = old - IntervalStep
                    \/ (new = MinInterval /\ old - IntervalStep < MinInterval)

(* C25: after any sequence of '+' and '-' key presses refresh_interval     *)
(* stays within [5, 300], each key press changes it by exactly 5 unless    *)
(* clamped at a bound, and in the multi-server monitor every child         *)
(* monitor's refresh_interval equals the parent's after each key press.    *)
C25_RefreshInterval ==
    /\ [](/\ InRange(refresh_interval)
          /\ InRange(multi_refresh_interval)
          /\ \A m \in DOMAIN child_refresh_interval :
                /\ InRange(child_refresh_interval[m])
                /\ child_refresh_interval[m] = multi_refresh_interval)
    /\ [][/\ last_key'.by = "monitor"
             => StepOf(last_key'.key, refresh_interval, refresh_interval')
          /\ last_key'.by = "multi"
             => StepOf(last_key'.key, multi_refresh_interval,
                       multi_refresh_interval')]_vars

\* a '+' at the upper bound and a '-' at the lower bound have been handled
C25_Witness ==
    /\ last_key = [key |-> "+", by |-> "multi"]
    /\ multi_refresh_interval = MaxInterval
    /\ child_refresh_interval = [m \in 1..MaxChildren |-> MaxInterval]
    /\ refresh_interval = MinInterval
    /\ key_event[0] = MinInterval

(***************************************************************************)
(* Forge detection in the Java status result (server_info.py,              *)
(* MinecraftQuery.ping_java, lines 367-399).  A JSON object is a function  *)
(* from its keys; a type string is the sequence of its characters, so that *)
(* str.lower is computed.                                                  *)
(***************************************************************************)
EmptyDict == <<>>

\* dict.get(key, default)
dict_get(dict, key, default) == IF key \in DOMAIN dict THEN dict[key] ELSE default

LowerChar(c) ==
    CASE c = "F" -> "f" [] c = "M" -> "m" [] c = "L" -> "l" [] c = "O" -> "o"
      [] c = "R" -> "r" [] c = "G" -> "g" [] c = "E" -> "e" [] c = "D" -> "d"
      [] c = "H" -> "h" [] c = "S" -> "s" [] OTHER -> c

\* str.lower()
py_lower(str) == [i \in DOMAIN str |-> LowerChar(str[i])]

FML == <<"F", "M", "L">>
ForgeTypes ==
    {FML, <<"f", "m", "l">>, <<"F", "o", "r", "g", "e">>,
     <<"f", "o", "r", "g", "e">>, <<"F", "O", "R", "G", "E">>}

JeiMod == [modid |-> "jei", version |-> "11.2"]
ForgeModLists == {<<>>, <<JeiMod>>}

PlayerSamples == {<<>>, <<[name |-> "alice", id |-> "u1"], [id |-> "u2"]>>}

\* the modinfo objects a status response may carry, and the responses
ModInfos ==
    {EmptyDict}
    \cup {[type |-> t] : t \in ForgeTypes}
    \cup {[modList |-> l] : l \in ForgeModLists}
    \cup {[type |-> t, modList |-> l] : t \in ForgeTypes, l \in ForgeModLists}

StatusBodies ==
    {[players |-> [online |-> Len(s), max |-> 20, sample |-> s]] :
        s \in PlayerSamples}

StatusJsons ==
    StatusBodies
    \cup {b @@ [modinfo |-> m] : b \in StatusBodies, m \in ModInfos}
    \cup {b @@ [modinfo |-> m] @@ [fml |-> TRUE] :
             b \in StatusBodies, m \in ModInfos}

\* lines 374-376: is_forge
is_forge(data) ==
    LET mod_info == dict_get(data, "modinfo", EmptyDict)
    IN  \/ py_lower(dict_get(mod_info, "type", <<>>))
              = <<"f", "o", "r", "g", "e">>
        \/ "fml" \in DOMAIN data

\* lines 367-399: the result built from the decoded JSON (the connect time,
\* the MOTD and the version are left out)
normalize_java(data) ==
    LET players == dict_get(data, "players", EmptyDict)
        sample_players == dict_get(players, "sample", <<>>)
        player_list == [i \in DOMAIN sample_players |->
                           dict_get(sample_players[i], "name",
                                    "Anonymous Player")]
        mod_info == dict_get(data, "modinfo", EmptyDict)
        result == [server_type |-> "java",
                   players |-> [online |-> dict_get(players, "online", 0),
                                max |-> dict_get(players, "max", 0),
                                sample |-> player_list],
                   forge |-> is_forge(data)]
    IN  IF is_forge(data) /\ "modList" \in DOMAIN mod_info
        THEN result @@ [mods |-> mod_info.modList]
        ELSE result

InitForge ==
    /\ tIn \in {[kind |-> "status", data |-> d] : d \in StatusJsons}
    /\ tOp = "init"
    /\ tOut = NoText

\* the status response is decoded and normalized
JavaStatus ==
    /\ tIn.kind = "status"
    /\ TextApply("ping_java",
                 [kind |-> "result", result |-> normalize_java(tIn.data)])

NextForge == JavaStatus

\* the response of a Forge server: modinfo of type FML with the mod jei
FmlResponse ==
    /\ tIn.kind = "status"
    /\ "modinfo" \in DOMAIN tIn.data
    /\ tIn.data.modinfo = [type |-> FML, modList |-> <<JeiMod>>]

(* C26: a Java status response whose JSON carries modinfo with type FML    *)
(* and modList [{modid jei, version 11.2}] is normalized into a result     *)
(* with forge = true and mods = [{modid jei, version 11.2}].               *)
C26_ForgeDetected ==
    (tOp = "ping_java" /\ FmlResponse) =>
        /\ tOut.result.forge
        /\ "mods" \in DOMAIN tOut.result
        /\ tOut.result.mods = <<JeiMod>>

(***************************************************************************)
(* The sweep of a port range (server.py, scan_all_ports).  The ports are   *)
(* put on a queue; min(max_threads, total_ports) workers take ports and    *)
(* probe them, Java first; the caller waits until the queue is empty or    *)
(* the flag is set, joins each worker for at most a second, prints the     *)
(* final progress line if the flag is not set, clears the flag and returns *)
(* the list.                                                               *)
(***************************************************************************)
MaxSweepPorts == 2
MaxWorkers == 2

\* the range swept and the endpoints on which a server may be up
start_port == 25565
end_port == start_port + MaxSweepPorts - 1
SweepRange == start_port..end_port
SweepEndpoints ==
    {<<"play.example", start_port, SERVER_TYPE_JAVA>>,
     <<"play.example", end_port, SERVER_TYPE_BEDROCK>>,
     <<"node.example", 25570, SERVER_TYPE_JAVA>>}

\* line 1556: min(max_threads, total_ports)
Workers == 1..py_min(MaxWorkers, end_port - start_port + 1)

\* line 1601: the format specification '.1f%' of the final progress line is
\* not one that float accepts, and formatting with it raises ValueError
format_final_progress == [raised |-> TRUE]

IdleWorker == [pc |-> "top", port |-> 0]

SweepIdle ==
    /\ sweep_queue = <<>>
    /\ sweep_worker = <<>>
    /\ sweep_found = <<>>
    /\ scanned_ports = 0
    /\ sweep_probed = <<>>
    /\ sweep_main = [pc |-> "idle", cancelled |-> FALSE]

\* lines 1451-1468 and 1555-1560: the queue is filled and the workers are
\* started
InitSweep ==
    /\ listening \in SUBSET SweepEndpoints
    /\ scanPc = "idle"
    /\ scan_port = 1
    /\ found_servers = <<>>
    /\ scan_probes = <<>>
    /\ sweep_queue = [i \in 1..(end_port - start_port + 1) |->
                         start_port + i - 1]
    /\ sweep_worker = [w \in Workers |-> IdleWorker]
    /\ sweep_found = <<>>
    /\ scanned_ports = 0
    /\ sweep_probed = [p \in SweepRange |-> 0]
    /\ sweep_main = [pc |-> "waiting", cancelled |-> FALSE]

SweepOthers ==
    <<varintVars, monitorVars, cancelVars, recordVars, textVars, modVars,
      logVars, threadVars, sockVars, scanVars, fanVars, keyVars, laterVars>>

\* lines 1473-1482: the top of the worker's loop
WorkerTake(w) ==
    /\ sweep_worker[w].pc = "top"
    /\ IF global_cancel_query \/ sweep_queue = <<>>
       THEN /\ sweep_worker' = [sweep_worker EXCEPT ![w].pc = "done"]
            /\ UNCHANGED sweep_queue
       ELSE /\ sweep_worker' =
                  [sweep_worker EXCEPT
                     ![w] = [pc |-> "taken", port |-> Head(sweep_queue)]]
            /\ sweep_queue' = Tail(sweep_queue)
    /\ UNCHANGED <<sweep_found, scanned_ports, sweep_probed, sweep_main,
                   cacheVars, flagVars, SweepOthers>>

\* lines 1480-1494: the second look at the flag and the Java probe
WorkerJava(w) ==
    /\ sweep_worker[w].pc = "taken"
    /\ IF global_cancel_query
       THEN /\ sweep_worker' = [sweep_worker EXCEPT ![w].pc = "done"]
            /\ UNCHANGED <<sweep_found, sweep_probed, cache, srv_cache>>
       ELSE LET port == sweep_worker[w].port
                p == scan_ping(ScanHost, port, SERVER_TYPE_JAVA)
            IN  /\ cache' = p.cache
                /\ srv_cache' = p.srv_cache
                /\ sweep_probed' = [sweep_probed EXCEPT ![port] = @ + 1]
                /\ IF p.result.error = ""
                   THEN /\ sweep_found' =
                              Append(sweep_found,
                                     [port |-> port, type |-> "java"])
                        /\ sweep_worker' =
                              [sweep_worker EXCEPT ![w].pc = "count"]
                   ELSE /\ sweep_worker' =
                              [sweep_worker EXCEPT ![w].pc = "bedrock"]
                        /\ UNCHANGED sweep_found
    /\ UNCHANGED <<sweep_queue, scanned_ports, sweep_main, now, dns,
                   srv_answer, call, pings, flagVars, SweepOthers>>

\* lines 1495-1505: the Bedrock probe
WorkerBedrock(w) ==
    /\ sweep_worker[w].pc = "bedrock"
    /\ LET port == sweep_worker[w].port
           p == scan_ping(ScanHost, port, SERVER_TYPE_BEDROCK)
       IN  /\ cache' = p.cache
           /\ srv_cache' = p.srv_cache
           /\ sweep_found' =
                 IF p.result.error = ""
                 THEN Append(sweep_found, [port |-> port, type |-> "bedrock"])
                 ELSE sweep_found
    /\ sweep_worker' = [sweep_worker EXCEPT ![w].pc = "count"]
    /\ UNCHANGED <<sweep_queue, scanned_ports, sweep_probed, sweep_main, now,
                   dns, srv_answer, call, pings, flagVars, SweepOthers>>

\* lines 1507-1511: scanned_ports += 1 under the lock, task_done
WorkerCount(w) ==
    /\ sweep_worker[w].pc = "count"
    /\ scanned_ports' = scanned_ports + 1
    /\ sweep_worker' = [sweep_worker EXCEPT ![w].pc = "top"]
    /\ UNCHANGED <<sweep_queue, sweep_found, sweep_probed, sweep_main,
                   cacheVars, flagVars, SweepOthers>>

sweep_worker_step ==
    \E w \in Workers :
        \/ WorkerTake(w)
        \/ WorkerJava(w)
        \/ WorkerBedrock(w)
        \/ WorkerCount(w)

\* lines 1567-1574: the caller sleeps until the queue is empty or the flag
\* is set
SweepWait ==
    /\ sweep_main.pc = "waiting"
    /\ sweep_queue = <<>> \/ global_cancel_query
    /\ sweep_main' = [sweep_main EXCEPT !.pc = "joining"]
    /\ UNCHANGED <<sweep_queue, sweep_worker, sweep_found, scanned_ports,
                   sweep_probed, cacheVars, flagVars, SweepOthers>>

\* lines 1576-1578: t.join(timeout=1) for each worker; the joins are over
\* when the workers are, or when the seconds have passed
SweepJoin ==
    /\ sweep_main.pc = "joining"
    /\ sweep_main' = [sweep_main EXCEPT !.pc = "joined"]
    /\ UNCHANGED <<sweep_queue, sweep_worker, sweep_found, scanned_ports,
                   sweep_probed, cacheVars, flagVars, SweepOthers>>

\* lines 1580-1607: the final progress line if the flag is not set, the
\* reset of the flag and the return
SweepFinish ==
    /\ sweep_main.pc = "joined"
    /\ IF ~global_cancel_query /\ format_final_progress.raised
       THEN /\ sweep_main' = [pc |-> "raised", cancelled |-> FALSE]
            /\ UNCHANGED global_cancel_query
       ELSE /\ sweep_main' = [pc |-> "returned",
                              cancelled |-> global_cancel_query]
            /\ reset_cancel
    /\ UNCHANGED <<sweep_queue, sweep_worker, sweep_found, scanned_ports,
                   sweep_probed, cacheVars, SweepOthers>>

NextSweep ==
    \/ sweep_worker_step
    \/ SweepWait
    \/ SweepJoin
    \/ SweepFinish
    \/ CtrlC

SweepFoundPorts == {sweep_found[j].port : j \in 1..Len(sweep_found)}

\* scan_all_ports is over and the flag was not set when it looked last
SweepOverUncancelled ==
    /\ sweep_main.pc \in {"returned", "raised"}
    /\ ~sweep_main.cancelled

(* C27: when scan_all_ports returns without having been cancelled, every   *)
(* port in [start_port, end_port] has been probed exactly once, all        *)
(* workers have finished, the returned list contains exactly the ports on  *)
(* which a server answered, and the cancel flag is false after the return. *)
C27_FullSweep ==
    SweepOverUncancelled =>
        /\ sweep_main.pc = "returned"
        /\ \A p \in SweepRange : sweep_probed[p] = 1
        /\ \A w \in Workers : sweep_worker[w].pc = "done"
        /\ \A p \in SweepRange :
               p \in SweepFoundPorts <=> \E t \in ServerTypes : Answers(p, t)
        /\ ~global_cancel_query

(***************************************************************************)
(* The record the monitor watches (server_monitor.py, check_server_status, *)
(* line 1182) and its history rings.                                       *)
(***************************************************************************)
\* the checks so far that got a result without error
OnlineProbes == {k \in 1..Len(mProbes) : IsOnline(mProbes[k])}

(* C29: on each sampler wake the monitor updates the monitored record's    *)
(* last_query and also appends the sample to the record's history rings    *)
(* (query_history with the query time, player_history with online/max).    *)
C29_MonitorHistory ==
    Len(mProbes) > 0 =>
        /\ m_server.last_query = time_of_probe(Len(mProbes))
        /\ Len(m_server.query_history)
               = py_min(HistoryCap, Cardinality(OnlineProbes))
        /\ Len(m_server.player_history)
               = py_min(HistoryCap, Cardinality(OnlineProbes))

(***************************************************************************)
(* The Forge/FML login dialog (forge_login_client.py,                      *)
(* get_mods_from_server and ForgeLoginClient.attempt_forge_handshake).     *)
(* A packet is given by what the loop makes of it: its id, the channel     *)
(* parse_plugin_message finds (a sequence of characters) and the tokens    *)
(* heuristic_extract_strings finds.  Tokens are numbers.  The clock counts *)
(* the seconds since the loop started, is looked at when a read gave no    *)
(* packet, and stops counting past the limit.                              *)
(***************************************************************************)
\* line 286: list(seen_mods)[:50]
ReplyCap == 50
\* line 221: time.time() - start > 15
GiveUpAfter == 15
\* line 87: self.recv_timeout = 5
recv_timeout == 5

MaxTokens == ReplyCap + 1
ClockCap == GiveUpAfter + 1

\* the ids of the login phase (lines 235-255) and two other ids
ID_DISCONNECT == 0
ID_ENCRYPTION_REQUEST == 1
ID_LOGIN_SUCCESS == 2
ID_SET_COMPRESSION == 3
ID_PLUGIN_MESSAGE == 23
\* an id with no branch of its own
ID_OTHER == ID_SET_COMPRESSION + 1

LoginChannels ==
    {<<"f", "m", "l", ":", "h", "s">>,
     <<"F", "M", "L", "|", "H", "S">>,
     <<"M", "o", "d", "s">>,
     <<"b", "r", "a", "n", "d">>}

TokenBatches == {{}, {1, 2}, 3..MaxTokens}

\* the hints a caller may give (line 85: predefined_mods or [])
ModHints == {<<>>, <<[id |-> "jei", version |-> "11.2"]>>}

LoginPackets ==
    {[id |-> i, channel |-> <<>>, tokens |-> {}] :
        i \in {ID_DISCONNECT, ID_ENCRYPTION_REQUEST, ID_LOGIN_SUCCESS,
               ID_SET_COMPRESSION}}
    \cup {[id |-> ID_PLUGIN_MESSAGE, channel |-> c, tokens |-> t] :
             c \in LoginChannels, t \in TokenBatches}
    \cup {[id |-> ID_OTHER, channel |-> <<"F", "M", "L", "|", "H", "S">>,
            tokens |-> {}]}

\* read_packet gave (None, None)
NoLoginPacket == [id |-> -1, channel |-> <<>>, tokens |-> {}]

\* 'sub' in str
str_contains(str, sub) ==
    \E i \in 0..(Len(str) - Len(sub)) : SubSeq(str, i + 1, i + Len(sub)) = sub

\* lines 274-275: the channel looks like Forge/FML
looks_forge(channel) ==
    LET c_low == py_lower(channel)
    IN  \/ str_contains(c_low, <<"f", "m", "l">>)
        \/ str_contains(c_low, <<"f", "o", "r", "g", "e">>)
        \/ str_contains(c_low, <<"m", "o", "d">>)

\* every token goes into the reply
all_tokens(seen) == {seen}

\* the tokens of list(seen)[:50]: all of them, or any 50 of them (a set has
\* no order of its own)
first_fifty(seen) ==
    IF Cardinality(seen) <= ReplyCap THEN {seen}
    ELSE {seen \ {x} : x \in seen}

\* lines 283-288: the entries of the reply
mod_entries(hint, seen) ==
    IF hint # <<>>
    THEN {[kind |-> "hint", mods |-> hint]}
    ELSE IF seen # {}
    THEN {[kind |-> "seen", mods |-> m] : m \in first_fifty(seen)}
    ELSE {[kind |-> "default",
           mods |-> <<[id |-> "minecraft", version |-> "1.20.1"],
                      [id |-> "forge", version |-> "40.2.0"]>>]}

\* line 294: the channels of the replies
reply_channels == <<"fml:handshake", "FML|HS", "FORGE", "fml:login">>

replies(entries) ==
    [i \in DOMAIN reply_channels |->
        [channel |-> reply_channels[i], entries |-> entries]]

\* the clock after d more seconds
later(d) == py_min(ClockCap, fl_clock + d)

LoginIdle ==
    /\ fl_pc = "none"
    /\ fl_sock = "none"
    /\ fl_peer = "open"
    /\ fl_clock = 0
    /\ predefined_mods = <<>>
    /\ seen_mods = {}
    /\ fl_packet = NoLoginPacket
    /\ fl_sent = <<>>

\* line 314: the client is made
InitLogin ==
    /\ fl_pc = "made"
    /\ fl_sock = "none"
    /\ fl_peer = "open"
    /\ fl_clock = 0
    /\ predefined_mods \in ModHints
    /\ seen_mods = {}
    /\ fl_packet = NoLoginPacket
    /\ fl_sent = <<>>

LoginOthers ==
    <<varintVars, monitorVars, cacheVars, flagVars, cancelVars, recordVars,
      textVars, modVars, logVars, threadVars, sockVars, scanVars, fanVars,
      keyVars, sweepVars, persistVars, overlapVars>>

\* lines 316-318 and 214-217: connect, handshake, login start, and the loop
\* is entered
LoginConnect ==
    /\ fl_pc = "made"
    /\ fl_pc' = "loop"
    /\ fl_sock' = "open"
    /\ UNCHANGED <<fl_peer, fl_clock, predefined_mods, seen_mods, fl_packet,
                   fl_sent, LoginOthers>>

\* lines 316 and 327-328: connect raises, the finally clause closes
LoginConnectFails ==
    /\ fl_pc = "made"
    /\ fl_pc' = "raised"
    /\ fl_sock' = "closed"
    /\ UNCHANGED <<fl_peer, fl_clock, predefined_mods, seen_mods, fl_packet,
                   fl_sent, LoginOthers>>

\* lines 219-224: read_packet gave (None, None); the loop ends if more than
\* 15 seconds have passed since the start
NoPacketRound(d) ==
    /\ fl_clock' = later(d)
    /\ fl_pc' = IF later(d) > GiveUpAfter THEN "done" ELSE "loop"
    /\ fl_packet' = NoLoginPacket
    /\ fl_sent' = <<>>
    /\ UNCHANGED <<predefined_mods, seen_mods>>

\* a round in which nothing arrives within recv_timeout (lines 157-158)
ReadTimeout ==
    /\ fl_pc = "loop"
    /\ fl_peer = "open"
    /\ NoPacketRound(recv_timeout)
    /\ UNCHANGED <<fl_sock, fl_peer, LoginOthers>>

\* the server has closed and recv gives b'' (lines 142-143): each round
\* comes back at once with (None, None); the rounds of the next recv_timeout
\* seconds are taken together
ReadEof ==
    /\ fl_pc = "loop"
    /\ fl_peer' = "closed"
    /\ NoPacketRound(recv_timeout)
    /\ UNCHANGED <<fl_sock, LoginOthers>>

\* lines 226-302: a round in which a packet arrives
ReadPacket ==
    /\ fl_pc = "loop"
    /\ fl_peer = "open"
    /\ \E p \in LoginPackets :
          /\ fl_packet' = p
          /\ IF p.id \in {ID_DISCONNECT, ID_ENCRYPTION_REQUEST,
                          ID_LOGIN_SUCCESS}
             THEN /\ fl_pc' = "done"
                  /\ fl_sent' = <<>>
                  /\ UNCHANGED seen_mods
             ELSE IF p.id = ID_SET_COMPRESSION
             THEN /\ fl_pc' = "loop"
                  /\ fl_sent' = <<>>
                  /\ UNCHANGED seen_mods
             ELSE /\ fl_pc' = "loop"
                  /\ seen_mods' = seen_mods \cup p.tokens
                  /\ IF looks_forge(p.channel)
                     THEN \E e \in mod_entries(predefined_mods,
                                               seen_mods \cup p.tokens) :
                             fl_sent' = replies(e)
                     ELSE fl_sent' = <<>>
    /\ UNCHANGED <<fl_clock, fl_sock, fl_peer, predefined_mods, LoginOthers>>

\* lines 305 and 319-328: the tokens are returned and the socket is closed
LoginReturn ==
    /\ fl_pc = "done"
    /\ fl_pc' = "returned"
    /\ fl_sock' = "closed"
    /\ UNCHANGED <<fl_peer, fl_clock, predefined_mods, seen_mods, fl_packet,
                   fl_sent, LoginOthers>>

NextLogin ==
    \/ LoginConnect
    \/ LoginConnectFails
    \/ ReadTimeout
    \/ ReadEof
    \/ ReadPacket
    \/ LoginReturn

TerminalIds == {ID_DISCONNECT, ID_ENCRYPTION_REQUEST, ID_LOGIN_SUCCESS}

\* the last round read a packet that has no branch of its own and whose
\* channel looks like Forge/FML
ForgeRound ==
    /\ fl_packet # NoLoginPacket
    /\ fl_packet.id \notin TerminalIds \cup {ID_SET_COMPRESSION}
    /\ looks_forge(fl_packet.channel)

\* four replies, on the four channels in order, all with the same entries
FourReplies ==
    /\ Len(fl_sent) = 4
    /\ \A i \in 1..4 : /\ fl_sent[i].channel = reply_channels[i]
                        /\ fl_sent[i].entries = fl_sent[1].entries

\* what every round but a Forge/FML one does
QuietRounds ==
    /\ fl_packet # NoLoginPacket /\ fl_packet.id \in TerminalIds
          => fl_pc \in {"done", "returned"} /\ fl_sent = <<>>
    /\ fl_packet # NoLoginPacket /\ fl_packet.id = ID_SET_COMPRESSION
          => fl_pc = "loop" /\ fl_sent = <<>>
    /\ fl_packet # NoLoginPacket /\ ~ForgeRound => fl_sent = <<>>

\* the entries when the hint is given, and when nothing was given or seen
HintOrDefault ==
    /\ predefined_mods # <<>>
          => fl_sent[1].entries = [kind |-> "hint", mods |-> predefined_mods]
    /\ predefined_mods = <<>> /\ seen_mods = {}
          => fl_sent[1].entries =
                [kind |-> "default",
                 mods |-> <<[id |-> "minecraft", version |-> "1.20.1"],
                            [id |-> "forge", version |-> "40.2.0"]>>]

C32_LoginTerminates ==
    <>(fl_pc \in {"returned", "raised"} /\ fl_sock = "closed")

(***************************************************************************)
(* The order of the pager (server_monitor.py, _get_sorted_events of        *)
(* LogViewer, lines 903-932, and of MultiServerLogViewer, lines 576-605).  *)
(* An event carries its kind, its timestamp and, as its identity, its      *)
(* place in the list handed to the pager.                                  *)
(***************************************************************************)
MaxPagerEvents == 3

\* lines 595 and 922
type_order ==
    <<"status_change", "player_join", "player_leave", "player_count", "info">>

PagerKinds ==
    {type_order[i] : i \in DOMAIN type_order} \cup {"warning", "error"}

PagerTimes == {1, 2}

\* the lists the pager may be given
RECURSIVE PagerListsOf(_)
PagerListsOf(n) ==
    IF n = 0 THEN {<<>>}
    ELSE {Append(l, [event_type |-> k, timestamp |-> t, place |-> n]) :
             l \in PagerListsOf(n - 1), k \in PagerKinds, t \in PagerTimes}

PagerLists == UNION {PagerListsOf(n) : n \in 0..MaxPagerEvents}

\* the event goes in front of the events of the same timestamp
insert_before_equal(done, e) ==
    LET n == Cardinality({i \in DOMAIN done : done[i].timestamp < e.timestamp})
    IN  SubSeq(done, 1, n) \o <<e>> \o SubSeq(done, n + 1, Len(done))

\* a step of the stable sort by timestamp: the event goes behind the events
\* that are not later than it
insert_by_time(done, e) ==
    LET n == Cardinality({i \in DOMAIN done : done[i].timestamp <= e.timestamp})
    IN  SubSeq(done, 1, n) \o <<e>> \o SubSeq(done, n + 1, Len(done))

\* sorted(events, key=lambda e: e.timestamp)
RECURSIVE sorted_by_time(_)
sorted_by_time(events) ==
    IF events = <<>> THEN <<>>
    ELSE insert_by_time(sorted_by_time(SubSeq(events, 1, Len(events) - 1)),
                        events[Len(events)])

\* the keys of events_by_type, in the order in which they were first met
RECURSIVE keys_in_order(_)
keys_in_order(events) ==
    IF events = <<>> THEN <<>>
    ELSE LET before == keys_in_order(SubSeq(events, 1, Len(events) - 1))
             k == events[Len(events)].event_type
         IN  IF \E i \in DOMAIN before : before[i] = k
             THEN before ELSE Append(before, k)

\* events_by_type[k], sorted
events_of_type(events, k) ==
    LET OfKind(e) == e.event_type = k
    IN  sorted_by_time(SelectSeq(events, OfKind))

\* the lists of the given kinds one after the other
RECURSIVE extend_all(_, _)
extend_all(events, kinds) ==
    IF kinds = <<>> THEN <<>>
    ELSE events_of_type(events, Head(kinds)) \o extend_all(events, Tail(kinds))

in_type_order(k) == \E i \in DOMAIN type_order : type_order[i] = k

get_sorted_events(events, sort_by_time) ==
    IF sort_by_time THEN sorted_by_time(events)
    ELSE LET NotListed(k) == ~in_type_order(k)
         IN  extend_all(events, type_order)
                \o extend_all(events, SelectSeq(keys_in_order(events), NotListed))

InitPager ==
    /\ tIn \in {[kind |-> "events", events |-> l, sort_by_time |-> b] :
                   l \in PagerLists, b \in BOOLEAN}
    /\ tOp = "init"
    /\ tOut = NoText

\* the pager of one monitor orders its events
LogViewerSort ==
    /\ tIn.kind = "events"
    /\ TextApply("LogViewer",
                 [kind |-> "events",
                  events |-> get_sorted_events(tIn.events, tIn.sort_by_time)])

\* the pager of the multi-server monitor orders its events
MultiServerLogViewerSort ==
    /\ tIn.kind = "events"
    /\ TextApply("MultiServerLogViewer",
                 [kind |-> "events",
                  events |-> get_sorted_events(tIn.events, tIn.sort_by_time)])

NextPager ==
    \/ LogViewerSort
    \/ MultiServerLogViewerSort

PagerSorted == tOp \in {"LogViewer", "MultiServerLogViewer"}

\* the output holds the events of the input, each once
PagerPermutation ==
    /\ Len(tOut.events) = Len(tIn.events)
    /\ \A i \in DOMAIN tIn.events :
          Cardinality({j \in DOMAIN tOut.events :
                          tOut.events[j] = tIn.events[i]}) = 1

\* the place of a kind among the groups: the five of type_order, then the
\* others
group_rank(k) ==
    IF in_type_order(k)
    THEN CHOOSE i \in DOMAIN type_order : type_order[i] = k
    ELSE Len(type_order) + 1

\* C33: _get_sorted_events of either pager returns a permutation of its
\* input; by time, the output is ascending by timestamp and events of equal
\* timestamp keep their input order; by kind, the events of status_change,
\* player_join, player_leave, player_count, info come in this order of
\* groups, then the other kinds, each kind in one run, and within each kind
\* the timestamps are ascending.
C33_PagerOrdering ==
    PagerSorted =>
        /\ PagerPermutation
        /\ \A i, j \in DOMAIN tOut.events :
              i < j =>
                 LET a == tOut.events[i]
                     b == tOut.events[j]
                 IN  IF tIn.sort_by_time
                     THEN /\ a.timestamp <= b.timestamp
                          /\ a.timestamp = b.timestamp => a.place < b.place
                     ELSE /\ group_rank(a.event_type) <= group_rank(b.event_type)
                          /\ a.event_type = b.event_type
                                => /\ a.timestamp <= b.timestamp
                                   /\ \A m \in i..j :
                                         tOut.events[m].event_type
                                            = a.event_type

\* C33: a pager has ordered by time a full list in which two events of one
\* timestamp are followed by an earlier one
C33_Witness ==
    /\ PagerSorted
    /\ tIn.sort_by_time
    /\ Len(tIn.events) = MaxPagerEvents
    /\ tIn.events[1].timestamp = 2
    /\ tIn.events[2].timestamp = 2
    /\ tIn.events[MaxPagerEvents].timestamp = 1
    /\ tOut.events # tIn.events

(***************************************************************************)
(* The events of a monitor and its daily log (server_monitor.py, add_event *)
(* lines 1237-1252, MonitorLogger.write_log lines 69-98).  The log of the  *)
(* server is one file per day; a file is its lines, or is missing.         *)
(***************************************************************************)
MaxEventCalls == 3
LastDay == 2

Days == 1..LastDay

NoDailyLog == [exists |-> FALSE, lines |-> <<>>]

NoAddEvent == [made |-> FALSE]

EventInputs ==
    {[event_type |-> "info", message |-> "refresh"],
     [event_type |-> "status_change", message |-> "online"],
     [event_type |-> "player_join", message |-> "Alex"]}

\* what may go wrong in write_log: nothing, the directory or the file
\* cannot be opened, or the write breaks off
WriteFaults == {"none", "open", "write"}

\* lines 80-88 and 92: the line of an event, json.dumps(log_entry) + "\n"
log_entry(e, day) ==
    [timestamp |-> day, server_name |-> "survival",
     event_type |-> e.event_type, message |-> e.message]

\* the file is opened with 'w' and holds the new line only
overwrite_line(file, line) == [exists |-> TRUE, lines |-> <<line>>]

\* lines 91-92: open(daily_log_file, 'a') and one write
append_line(file, line) == [exists |-> TRUE, lines |-> Append(file.lines, line)]

\* the file after a write that broke off: made if it was missing, with the
\* lines it had and perhaps a piece of the new one
torn_files(file) ==
    {[exists |-> TRUE, lines |-> file.lines],
     [exists |-> TRUE, lines |-> Append(file.lines, [torn |-> TRUE])]}

\* MonitorLogger.write_log: the files it may leave and what it returns; every
\* Exception is caught (lines 95-97)
write_log(files, day, e, fault) ==
    IF fault = "none"
    THEN {[files |-> [files EXCEPT ![day] = append_line(@, log_entry(e, day))],
           returned |-> TRUE]}
    ELSE IF fault = "open"
    THEN {[files |-> files, returned |-> FALSE]}
    ELSE {[files |-> [files EXCEPT ![day] = f], returned |-> FALSE] :
             f \in torn_files(files[day])}

PersistIdle ==
    /\ enable_logging = FALSE
    /\ pe_queue = <<>>
    /\ daily_logs = [d \in Days |-> NoDailyLog]
    /\ pe_today = 1
    /\ pe_last = NoAddEvent

\* ServerMonitor.__init__, lines 1096 and 1100: the flag and an empty queue
InitPersist ==
    /\ enable_logging \in BOOLEAN
    /\ pe_queue = <<>>
    /\ daily_logs = [d \in Days |-> NoDailyLog]
    /\ pe_today = 1
    /\ pe_last = NoAddEvent

PersistOthers ==
    <<varintVars, monitorVars, cacheVars, flagVars, cancelVars, recordVars,
      textVars, modVars, logVars, threadVars, sockVars, scanVars, fanVars,
      keyVars, sweepVars, loginVars, overlapVars>>

\* ServerMonitor.add_event
AddEvent ==
    /\ Len(pe_queue) < MaxEventCalls
    /\ \E e \in EventInputs, fault \in WriteFaults :
          /\ pe_queue' = Append(pe_queue, e)
          /\ IF enable_logging
             THEN \E w \in write_log(daily_logs, pe_today, e, fault) :
                     /\ daily_logs' = w.files
                     /\ pe_last' = [made |-> TRUE, event |-> e,
                                    queue_before |-> pe_queue,
                                    files_before |-> daily_logs,
                                    written |-> w.returned,
                                    outcome |-> "returned"]
             ELSE /\ fault = "none"
                  /\ UNCHANGED daily_logs
                  /\ pe_last' = [made |-> TRUE, event |-> e,
                                 queue_before |-> pe_queue,
                                 files_before |-> daily_logs,
                                 written |-> FALSE,
                                 outcome |-> "returned"]
    /\ UNCHANGED <<enable_logging, pe_today, PersistOthers>>

\* the day changes
Midnight ==
    /\ pe_today < LastDay
    /\ pe_today' = pe_today + 1
    /\ pe_last' = NoAddEvent
    /\ UNCHANGED <<enable_logging, pe_queue, daily_logs, PersistOthers>>

NextPersist ==
    \/ AddEvent
    \/ Midnight

\* C34: with logging enabled an add_event call whose log write succeeds
\* appends exactly one line, that of the event, to the file of the day and
\* touches no other file; with logging disabled no file is written; a log
\* write that fails is not propagated: add_event returns normally; in every
\* case the event has been put on the queue.
C34_EventPersistence ==
    pe_last.made =>
        /\ pe_last.outcome = "returned"
        /\ pe_queue = Append(pe_last.queue_before, pe_last.event)
        /\ enable_logging /\ pe_last.written =>
              /\ daily_logs[pe_today].exists
              /\ daily_logs[pe_today].lines =
                    Append(pe_last.files_before[pe_today].lines,
                           log_entry(pe_last.event, pe_today))
              /\ \A d \in Days \ {pe_today} :
                    daily_logs[d] = pe_last.files_before[d]
        /\ ~enable_logging => daily_logs = [d \in Days |-> NoDailyLog]

\* C34: on the last day an event was logged into a file that held a line
\* already, and the write of one more event had failed to open its file
C34_Witness ==
    /\ pe_last.made
    /\ enable_logging
    /\ pe_last.written
    /\ pe_today = LastDay
    /\ Len(daily_logs[pe_today].lines) = 2
    /\ ~daily_logs[1].exists
    /\ Len(pe_queue) = MaxEventCalls

(***************************************************************************)
(* Two threads in check_server_status (server_monitor.py, lines 1166-1235):*)
(* the sampler thread calls it from _monitor_loop (line 1161), the UI      *)
(* thread calls it for the key 'r' (lines 1525-1528).  No lock is held.    *)
(* The steps of a call are the probe, the three comparisons with their     *)
(* writes, and the write of last_result; the threads may take turns        *)
(* between them.                                                           *)
(***************************************************************************)
MaxOverlapChecks == 3
MaxWorldChanges == 1

OverlapThreads == {"sampler", "ui"}

OverlapPlayers == {"Alex"}

\* a probe result: an error, or the players online
Worlds ==
    {[online |-> FALSE, players |-> {}]}
    \cup {[online |-> TRUE, players |-> ps] : ps \in SUBSET OverlapPlayers}

NoProbeYet == [online |-> FALSE, players |-> {}, none |-> TRUE]

\* last_players before any online probe of a Java server
NoPlayers == [none |-> TRUE]

OvEvent(type, player) == [event_type |-> type, player_name |-> player]

OvIdle == [pc |-> "idle", current |-> NoProbeYet]

NoHistory ==
    [flips |-> 0, counts |-> 0, moves |-> [p \in OverlapPlayers |-> 0],
     changes |-> 0, checks |-> 0, latest |-> NoProbeYet]

OverlapIdle ==
    /\ ov_world = NoProbeYet
    /\ ov_thread = [t \in OverlapThreads |-> OvIdle]
    /\ ov_last_result = NoProbeYet
    /\ ov_last_players = NoPlayers
    /\ ov_last_player_count = -1
    /\ ov_events = <<>>
    /\ ov_history = NoHistory

\* the fields after a first check of the server as it is (lines 1113-1116
\* and one run of check_server_status)
InitOverlap ==
    /\ ov_world \in Worlds
    /\ ov_thread = [t \in OverlapThreads |-> OvIdle]
    /\ ov_last_result = ov_world
    /\ ov_last_players =
          IF ov_world.online THEN [none |-> FALSE, names |-> ov_world.players]
          ELSE NoPlayers
    /\ ov_last_player_count =
          IF ov_world.online THEN Cardinality(ov_world.players) ELSE -1
    /\ ov_events = <<>>
    /\ ov_history = [NoHistory EXCEPT !.latest = ov_world]

OverlapOthers ==
    <<varintVars, monitorVars, cacheVars, flagVars, cancelVars, recordVars,
      textVars, modVars, logVars, threadVars, sockVars, scanVars, fanVars,
      keyVars, sweepVars, loginVars, persistVars>>

\* the server changes
WorldChange ==
    /\ ov_history.changes < MaxWorldChanges
    /\ \E w \in Worlds \ {ov_world} :
          /\ ov_world' = w
          /\ ov_history' =
                [ov_history EXCEPT
                   !.changes = @ + 1,
                   !.flips = IF w.online # ov_world.online THEN @ + 1 ELSE @,
                   !.counts = IF Cardinality(w.players)
                                    # Cardinality(ov_world.players)
                              THEN @ + 1 ELSE @,
                   !.moves = [p \in OverlapPlayers |->
                                 IF (p \in w.players) # (p \in ov_world.players)
                                 THEN @[p] + 1 ELSE @[p]]]
    /\ UNCHANGED <<ov_thread, ov_last_result, ov_last_players,
                   ov_last_player_count, ov_events, OverlapOthers>>

\* _monitor_loop, line 1161: the sampler begins a check
SamplerBegins ==
    /\ ov_thread["sampler"].pc = "idle"
    /\ ov_history.checks < MaxOverlapChecks
    /\ ov_thread' = [ov_thread EXCEPT !["sampler"].pc = "ping"]
    /\ ov_history' = [ov_history EXCEPT !.checks = @ + 1]
    /\ UNCHANGED <<ov_world, ov_last_result, ov_last_players,
                   ov_last_player_count, ov_events, OverlapOthers>>

\* _handle_key, lines 1525-1528: the key 'r' adds an info event and begins a
\* check in the UI thread
UiBegins ==
    /\ ov_thread["ui"].pc = "idle"
    /\ ov_history.checks < MaxOverlapChecks
    /\ ov_thread' = [ov_thread EXCEPT !["ui"].pc = "ping"]
    /\ ov_events' = Append(ov_events, OvEvent("info", "-"))
    /\ ov_history' = [ov_history EXCEPT !.checks = @ + 1]
    /\ UNCHANGED <<ov_world, ov_last_result, ov_last_players,
                   ov_last_player_count, OverlapOthers>>

\* lines 1176-1179: the probe
OvPing(t) ==
    /\ ov_thread[t].pc = "ping"
    /\ ov_thread' = [ov_thread EXCEPT ![t] = [pc |-> "status",
                                              current |-> ov_world]]
    /\ ov_history' = [ov_history EXCEPT !.latest = ov_world]
    /\ UNCHANGED <<ov_world, ov_last_result, ov_last_players,
                   ov_last_player_count, ov_events, OverlapOthers>>

\* lines 1185-1194: the status is compared with last_result
OvStatus(t) ==
    /\ ov_thread[t].pc = "status"
    /\ ov_thread' = [ov_thread EXCEPT ![t].pc =
                        IF ov_thread[t].current.online THEN "count"
                        ELSE "store"]
    /\ ov_events' =
          IF ov_last_result.online # ov_thread[t].current.online
          THEN Append(ov_events, OvEvent("status_change", "-"))
          ELSE ov_events
    /\ UNCHANGED <<ov_world, ov_last_result, ov_last_players,
                   ov_last_player_count, ov_history, OverlapOthers>>

\* lines 1197-1209: the player count is compared and stored
OvCount(t) ==
    /\ ov_thread[t].pc = "count"
    /\ LET current_player_count == Cardinality(ov_thread[t].current.players)
       IN  /\ ov_events' =
                 IF /\ ov_last_player_count >= 0
                    /\ current_player_count # ov_last_player_count
                 THEN Append(ov_events, OvEvent("player_count", "-"))
                 ELSE ov_events
           /\ ov_last_player_count' = current_player_count
    /\ ov_thread' = [ov_thread EXCEPT ![t].pc = "players"]
    /\ UNCHANGED <<ov_world, ov_last_result, ov_last_players, ov_history,
                   OverlapOthers>>

\* the events of a set of players, one each
RECURSIVE events_for(_, _)
events_for(type, players) ==
    IF players = {} THEN <<>>
    ELSE LET p == CHOOSE x \in players : TRUE
         IN  <<OvEvent(type, p)>> \o events_for(type, players \ {p})

\* lines 1212-1233: the players are compared and stored
OvPlayers(t) ==
    /\ ov_thread[t].pc = "players"
    /\ LET current_players == ov_thread[t].current.players
       IN  /\ ov_events' =
                 IF ov_last_players = NoPlayers THEN ov_events
                 ELSE ov_events
                      \o events_for("player_join",
                                    current_players \ ov_last_players.names)
                      \o events_for("player_leave",
                                    ov_last_players.names \ current_players)
           /\ ov_last_players' = [none |-> FALSE, names |-> current_players]
    /\ ov_thread' = [ov_thread EXCEPT ![t].pc = "store"]
    /\ UNCHANGED <<ov_world, ov_last_result, ov_last_player_count,
                   ov_history, OverlapOthers>>

\* line 1235: self.last_result = current_result
OvStore(t) ==
    /\ ov_thread[t].pc = "store"
    /\ ov_last_result' = ov_thread[t].current
    /\ ov_thread' = [ov_thread EXCEPT ![t] = OvIdle]
    /\ UNCHANGED <<ov_world, ov_last_players, ov_last_player_count,
                   ov_events, ov_history, OverlapOthers>>

\* a step of check_server_status in one of the threads
OvStep ==
    \E t \in OverlapThreads :
        OvPing(t) \/ OvStatus(t) \/ OvCount(t) \/ OvPlayers(t) \/ OvStore(t)

NextOverlap ==
    \/ WorldChange
    \/ SamplerBegins
    \/ UiBegins
    \/ OvStep

OvCountOf(type) ==
    Cardinality({i \in DOMAIN ov_events : ov_events[i].event_type = type})

OvMovesOf(p) ==
    Cardinality({i \in DOMAIN ov_events :
                    /\ ov_events[i].event_type \in {"player_join",
                                                    "player_leave"}
                    /\ ov_events[i].player_name = p})

\* C35: also when a manual refresh overlaps the sampler's check, a change of
\* the server gives at most one status_change, one player_count and one
\* player_join or player_leave per player, and once no check is running
\* last_result, last_players and last_player_count are those of the most
\* recent probe.
C35_ChangeReportedOnce ==
    /\ OvCountOf("status_change") <= ov_history.flips
    /\ OvCountOf("player_count") <= ov_history.counts
    /\ \A p \in OverlapPlayers : OvMovesOf(p) <= ov_history.moves[p]
    /\ (\A t \in OverlapThreads : ov_thread[t].pc = "idle") =>
          /\ ov_last_result = ov_history.latest
          /\ ov_history.latest.online =>
                /\ ov_last_players.names = ov_history.latest.players
                /\ ov_last_player_count
                      = Cardinality(ov_history.latest.players)

(***************************************************************************)
(* The monitor's events and its sampler thread around stop                 *)
(* (server_monitor.py, lines 1154-1164, 1237-1262, 1541-1550).             *)
(***************************************************************************)
\* C36: every event that add_event has put on the queue is moved to
\* all_events at some later time: the n-th event enqueued becomes the n-th
\* entry of all_events, whichever thread enqueued it, the events of the last
\* probe before stop and the info event of stop included.
C36_EveryEventDrained ==
    \A n \in 1..(MaxEvents + 1) :
        (Len(enqueued) >= n) ~> (Len(all_events) >= n)

\* C37: once stop has returned, the sampler thread makes no probe and adds
\* no event, and it comes to its end.
C37_QuietAfterStop ==
    /\ [][uiPc = "stopped" =>
            /\ ~(samplerPc = "probe" /\ samplerPc' = "check")
            /\ enqueued' = enqueued]_vars
    /\ (uiPc = "stopped") ~> (samplerPc = "exit")

(***************************************************************************)
(* What MinecraftPing.ping leaves in the status cache (server.py, lines    *)
(* 239-290): the claims speak of the last ping call, as those above.       *)
(***************************************************************************)
\* the call made a probe, and the probe came back
ProbeCompleted == call.probed # <<>>

\* the result of the probe is what the call returned and what the cache now
\* holds under the key of the call, good for 60 s from now
StoredUnderKey ==
    /\ call.probed = <<call.key>>
    /\ call.left # NoEntry
    /\ call.left.data = call.result
    /\ call.left.expiry = call.at + CACHE_DURATION

\* every probe result is stored, and a call with use_cache=False always
\* probes, whatever the cache holds
EveryProbeStored ==
    /\ (Called /\ ProbeCompleted) => StoredUnderKey
    /\ (Called /\ ~call.use_cache /\ ~call.canceled) => ProbeCompleted

\* a call with use_cache=True that finds an entry for its key younger than
\* 60 s
FreshEntryFound ==
    /\ Called
    /\ call.use_cache
    /\ call.stored # NoEntry
    /\ StoredAge < CACHE_DURATION

\* C38 (as amended): every probe that ping completes is stored in the status
\* cache under (resolved host, resolved port, kind), with or without an
\* error and whether or not use_cache was set; a call with use_cache=False
\* probes without reading the cache; a call with use_cache=True that starts
\* with the cancel flag clear and finds an entry younger than 60 s returns
\* it, be it an error, without probing.
C38_EveryResultCached ==
    /\ EveryProbeStored
    /\ (FreshEntryFound /\ ~call.canceled) => ReturnedStored

\* C38: a call with use_cache=True has returned, without probing, an error
\* that was stored less than 60 s before
C38_Witness ==
    /\ FreshEntryFound
    /\ ~call.canceled
    /\ call.stored.data.error # ""
    /\ call.result.error = call.stored.data.error
    /\ call.probed = <<>>

\* C38 as stated: the same, for every call with use_cache=True within 60 s
\* of the probe.
C38_FreshEntryAlwaysReturned ==
    /\ EveryProbeStored
    /\ FreshEntryFound => ReturnedStored

(***************************************************************************)
(* The mod cache and its endpoints (server.py, lines 94-111; server_info.py*)
(* lines 1762-1779).                                                       *)
(***************************************************************************)
\* the last get_mod_list call took its list from the mod cache
FromModCache ==
    /\ mod_call.made
    /\ ~mod_call.probed
    /\ mod_call.result # <<>>

\* C39: a mod list that the cache returns for an endpoint is the list that
\* was saved for this very endpoint: what was saved for another (host, port)
\* is never returned.
C39_EndpointsApart ==
    FromModCache =>
        /\ mod_call.written # NoList
        /\ mod_call.result = mod_call.written.mods

(***************************************************************************)
(* The names of the daily logs (server_monitor.py, MonitorLogger.write_log *)
(* lines 69-98 and list_log_files lines 162-199).  A server name is a      *)
(* sequence of characters; a file name is a sequence of pieces: the word   *)
(* "monitor", the characters of the name, the date and ".log", with "_"    *)
(* between them as the code puts it.                                       *)
(***************************************************************************)
MaxNameLen == 3

NameChars == {"a", "_", ":"}

RECURSIVE NamesOfLen(_)
NamesOfLen(n) ==
    IF n = 0 THEN {<<>>}
    ELSE {Append(s, c) : s \in NamesOfLen(n - 1), c \in NameChars}

LoggedNames == UNION {NamesOfLen(n) : n \in 1..MaxNameLen}

\* datetime.now().strftime("%Y%m%d")
LogDate == "20260101"

\* line 77: re.sub(r'[<>:"/\\|?*]', '_', server_name)
safe_name(server_name) ==
    [i \in 1..Len(server_name) |->
        IF server_name[i] = ":" THEN "_" ELSE server_name[i]]

\* line 78: f"{LOGS_DIR}/monitor_{safe_name}_{today}.log"
daily_log_file(server_name, today) ==
    <<"monitor", "_">> \o safe_name(server_name) \o <<"_", today, ".log">>

\* text.split('_'): the pieces between the underscores, each joined up
RECURSIVE split_underscore(_, _)
split_underscore(text, piece) ==
    IF text = <<>> THEN <<piece>>
    ELSE IF Head(text) = "_"
    THEN <<piece>> \o split_underscore(Tail(text), <<>>)
    ELSE split_underscore(Tail(text), Append(piece, Head(text)))

\* '_'.join(parts)
RECURSIVE join_underscore(_)
join_underscore(parts) ==
    IF parts = <<>> THEN <<>>
    ELSE IF Len(parts) = 1 THEN parts[1]
    ELSE parts[1] \o <<"_">> \o join_underscore(Tail(parts))

\* line 170: filename.startswith("monitor_") and filename.endswith(".log")
is_monitor_name(filename) ==
    /\ Len(filename) >= 3
    /\ filename[1] = "monitor"
    /\ filename[2] = "_"
    /\ filename[Len(filename)] = ".log"

\* lines 172-177: what list_log_files reads from a file name
parse_log_name(filename) ==
    LET parts == split_underscore(SubSeq(filename, 3, Len(filename) - 1), <<>>)
        n == Len(parts)
    IN  IF n >= 3
        THEN [listed |-> TRUE, filename |-> filename,
              server_name |-> join_underscore(SubSeq(parts, 1, n - 2)),
              date |-> parts[n - 1], time |-> parts[n]]
        ELSE [listed |-> FALSE, filename |-> filename, server_name |-> <<>>,
              date |-> <<>>, time |-> <<>>]

\* list_log_files(server_name) over the files of the directory
list_log_files(dir, server_name) ==
    {parse_log_name(f) :
        f \in {g \in dir : /\ is_monitor_name(g)
                           /\ parse_log_name(g).listed
                           /\ parse_log_name(g).server_name = server_name}}

\* two monitors, with logging on, have each written an event today
InitLogNames ==
    /\ tIn \in {[kind |-> "names", mine |-> s, other |-> t] :
                   s \in LoggedNames, t \in LoggedNames}
    /\ tOp = "init"
    /\ tOut = NoText

\* display_status, lines 1278-1279: the monitor lists the logs of its server
ListOwnLogs ==
    /\ tIn.kind = "names"
    /\ TextApply("list_log_files",
                 [kind |-> "files",
                  files |-> list_log_files({daily_log_file(tIn.mine, LogDate),
                                            daily_log_file(tIn.other, LogDate)},
                                           tIn.mine)])

NextLogNames == ListOwnLogs

\* C40: the daily log that write_log made for the server name S is among
\* the files list_log_files(S) returns, with server_name S, and every file
\* list_log_files(S) returns is a log written for S.
C40_LogsFoundAgain ==
    tOp = "list_log_files" =>
        /\ \E f \in tOut.files :
              /\ f.filename = daily_log_file(tIn.mine, LogDate)
              /\ f.server_name = tIn.mine
        /\ \A f \in tOut.files :
              f.filename = daily_log_file(tIn.mine, LogDate)

(***************************************************************************)
(* The specifications.  Each runs one subsystem and leaves the others at   *)
(* rest.                                                                   *)
(***************************************************************************)
\* the parts that follow the records, at rest
LaterIdle == LoginIdle /\ PersistIdle /\ OverlapIdle

MoreIdle == ScanIdle /\ FanIdle /\ KeysIdle /\ SweepIdle /\ LaterIdle

ExtIdle ==
    TextIdle /\ ModsIdle /\ LogsIdle /\ ThreadsIdle /\ SocketsIdle
    /\ MoreIdle

InitSpecVarint ==
    InitVarint /\ MonitorIdle /\ CacheIdle /\ FlagIdle /\ CancelIdle
    /\ RecordsIdle /\ ExtIdle

SpecVarint == InitSpecVarint /\ [][NextVarint]_vars

InitSpecMonitor ==
    InitMonitor /\ VarintIdle /\ CacheIdle /\ FlagIdle /\ CancelIdle
    /\ RecordsIdle /\ ExtIdle

SpecMonitor == InitSpecMonitor /\ [][NextMonitor]_vars

InitSpecCache ==
    InitCache /\ FlagIdle /\ VarintIdle /\ MonitorIdle /\ CancelIdle
    /\ RecordsIdle /\ ExtIdle

SpecCache == InitSpecCache /\ [][NextCache]_vars

InitSpecCancel ==
    InitCancel /\ FlagIdle /\ VarintIdle /\ MonitorIdle /\ CacheIdle
    /\ RecordsIdle /\ ExtIdle

SpecCancel == InitSpecCancel /\ [][NextCancel]_vars

InitSpecRecords ==
    InitRecords /\ FlagIdle /\ VarintIdle /\ MonitorIdle /\ CacheIdle
    /\ CancelIdle /\ ExtIdle

SpecRecords == InitSpecRecords /\ [][NextRecords]_vars

InitSpecText ==
    InitText /\ FlagIdle /\ VarintIdle /\ MonitorIdle /\ CacheIdle
    /\ CancelIdle /\ RecordsIdle /\ ModsIdle /\ LogsIdle /\ ThreadsIdle
    /\ SocketsIdle /\ MoreIdle

SpecText == InitSpecText /\ [][NextText]_vars

InitSpecMods ==
    InitMods /\ FlagIdle /\ VarintIdle /\ MonitorIdle /\ CacheIdle
    /\ CancelIdle /\ RecordsIdle /\ TextIdle /\ LogsIdle /\ ThreadsIdle
    /\ SocketsIdle /\ MoreIdle

SpecMods == InitSpecMods /\ [][NextMods]_vars

InitSpecLogs ==
    InitLogs /\ FlagIdle /\ VarintIdle /\ MonitorIdle /\ CacheIdle
    /\ CancelIdle /\ RecordsIdle /\ TextIdle /\ ModsIdle /\ ThreadsIdle
    /\ SocketsIdle /\ MoreIdle

SpecLogs == InitSpecLogs /\ [][NextLogs]_vars

InitSpecThreads ==
    InitThreads /\ FlagIdle /\ VarintIdle /\ CacheIdle /\ CancelIdle
    /\ RecordsIdle /\ TextIdle /\ ModsIdle /\ LogsIdle
    /\ SocketsIdle /\ MoreIdle

SpecThreads == InitSpecThreads /\ [][NextThreads]_vars

\* the sampler thread keeps running while it has a step to take, and stop,
\* once called, runs to its end
SpecThreadsFair == SpecThreads /\ WF_vars(SamplerStep) /\ WF_vars(Stop)

InitSpecSockets ==
    InitSockets /\ VarintIdle /\ MonitorIdle /\ CacheIdle /\ CancelIdle
    /\ RecordsIdle /\ TextIdle /\ ModsIdle /\ LogsIdle /\ ThreadsIdle
    /\ MoreIdle

SpecSockets == InitSpecSockets /\ [][NextSockets]_vars

InitSpecHit ==
    InitCache /\ FlagIdle /\ VarintIdle /\ MonitorIdle /\ CancelIdle
    /\ RecordsIdle /\ ExtIdle

SpecHit == InitSpecHit /\ [][NextHit]_vars

InitSpecScan ==
    InitScan /\ InitCache /\ FlagIdle /\ VarintIdle /\ MonitorIdle
    /\ CancelIdle /\ RecordsIdle /\ TextIdle /\ ModsIdle /\ LogsIdle
    /\ ThreadsIdle /\ SocketsIdle /\ FanIdle /\ KeysIdle /\ SweepIdle /\ LaterIdle

SpecScan == InitSpecScan /\ [][NextScan]_vars

InitSpecFan ==
    InitFan /\ InitCache /\ FlagIdle /\ VarintIdle /\ MonitorIdle
    /\ CancelIdle /\ RecordsIdle /\ TextIdle /\ ModsIdle /\ LogsIdle
    /\ ThreadsIdle /\ SocketsIdle /\ ScanIdle /\ KeysIdle /\ SweepIdle /\ LaterIdle

SpecFan == InitSpecFan /\ [][NextFan]_vars

InitSpecKeys ==
    InitKeys /\ VarintIdle /\ MonitorIdle /\ CacheIdle /\ FlagIdle
    /\ CancelIdle /\ RecordsIdle /\ TextIdle /\ ModsIdle /\ LogsIdle
    /\ ThreadsIdle /\ SocketsIdle /\ ScanIdle /\ FanIdle /\ SweepIdle /\ LaterIdle

SpecKeys == InitSpecKeys /\ [][NextKeys]_vars

InitSpecForge ==
    InitForge /\ VarintIdle /\ MonitorIdle /\ CacheIdle /\ FlagIdle
    /\ CancelIdle /\ RecordsIdle /\ ModsIdle /\ LogsIdle /\ ThreadsIdle
    /\ SocketsIdle /\ MoreIdle

SpecForge == InitSpecForge /\ [][NextForge]_vars

InitSpecSweep ==
    InitSweep /\ InitCache /\ FlagIdle /\ VarintIdle /\ MonitorIdle
    /\ CancelIdle /\ RecordsIdle /\ TextIdle /\ ModsIdle /\ LogsIdle
    /\ ThreadsIdle /\ SocketsIdle /\ FanIdle /\ KeysIdle /\ LaterIdle

SpecSweep == InitSpecSweep /\ [][NextSweep]_vars

InitSpecLogin ==
    InitLogin /\ VarintIdle /\ MonitorIdle /\ CacheIdle /\ FlagIdle
    /\ CancelIdle /\ RecordsIdle /\ TextIdle /\ ModsIdle /\ LogsIdle
    /\ ThreadsIdle /\ SocketsIdle /\ ScanIdle /\ FanIdle /\ KeysIdle
    /\ SweepIdle /\ PersistIdle /\ OverlapIdle

SpecLogin == InitSpecLogin /\ [][NextLogin]_vars

\* the client's thread keeps running
SpecLoginFair == SpecLogin /\ WF_vars(NextLogin)

InitSpecPager ==
    InitPager /\ VarintIdle /\ MonitorIdle /\ CacheIdle /\ FlagIdle
    /\ CancelIdle /\ RecordsIdle /\ ModsIdle /\ LogsIdle /\ ThreadsIdle
    /\ SocketsIdle /\ MoreIdle

SpecPager == InitSpecPager /\ [][NextPager]_vars

InitSpecPersist ==
    InitPersist /\ VarintIdle /\ MonitorIdle /\ CacheIdle /\ FlagIdle
    /\ CancelIdle /\ RecordsIdle /\ TextIdle /\ ModsIdle /\ LogsIdle
    /\ ThreadsIdle /\ SocketsIdle /\ ScanIdle /\ FanIdle /\ KeysIdle
    /\ SweepIdle /\ LoginIdle /\ OverlapIdle

SpecPersist == InitSpecPersist /\ [][NextPersist]_vars

InitSpecOverlap ==
    InitOverlap /\ VarintIdle /\ MonitorIdle /\ CacheIdle /\ FlagIdle
    /\ CancelIdle /\ RecordsIdle /\ TextIdle /\ ModsIdle /\ LogsIdle
    /\ ThreadsIdle /\ SocketsIdle /\ ScanIdle /\ FanIdle /\ KeysIdle
    /\ SweepIdle /\ LoginIdle /\ PersistIdle

SpecOverlap == InitSpecOverlap /\ [][NextOverlap]_vars

InitSpecLogNames ==
    InitLogNames /\ VarintIdle /\ MonitorIdle /\ CacheIdle /\ FlagIdle
    /\ CancelIdle /\ RecordsIdle /\ ModsIdle /\ LogsIdle /\ ThreadsIdle
    /\ SocketsIdle /\ MoreIdle

SpecLogNames == InitSpecLogNames /\ [][NextLogNames]_vars

=============================================================================
